---- MODULE Spec2Model ----
(***************************************************************************)
(* mapsh-pit: the matching-and-clustering engine.                          *)
(*                                                                         *)
(*   dedup.ts            checkDuplicate, UnionFind, findDuplicateGroups    *)
(*   token-set-ratio.ts  tokenize, tokenSetRatio, checkBlockingConflict,   *)
(*                       isGenericName                                     *)
(*   jaro-winkler.ts     jaroWinklerSimilarity, normalizeName,             *)
(*                       getAdjustedThreshold                              *)
(*                                                                         *)
(* Strings are sequences of one-character strings.  Scores are exact       *)
(* rationals <<numerator, denominator>> in lowest terms; thresholds on     *)
(* scores are integers in thousandths (850 is 0.85).  Distances are whole  *)
(* metres between points that lie on one meridian.                         *)
(***************************************************************************)
EXTENDS Integers, Sequences, FiniteSets, TLC

(***************************************************************************)
(* Characters                                                              *)
(***************************************************************************)

\* const v = value: the value is computed once and handed to In
Bind(value, In(_)) == CHOOSE r \in {In(v) : v \in {value}} : TRUE

Bind2(value1, value2, In(_, _)) ==
  CHOOSE r \in {In(v1, v2) : v1 \in {value1}, v2 \in {value2}} : TRUE

Bind3(value1, value2, value3, In(_, _, _)) ==
  CHOOSE r \in {In(v1, v2, v3) :
                  v1 \in {value1}, v2 \in {value2}, v3 \in {value3}} : TRUE

\* String.prototype.toLowerCase on one character (ASCII)
Lower(c) ==
  CASE c = "A" -> "a" [] c = "B" -> "b" [] c = "C" -> "c" [] c = "D" -> "d"
    [] c = "E" -> "e" [] c = "F" -> "f" [] c = "G" -> "g" [] c = "H" -> "h"
    [] c = "I" -> "i" [] c = "J" -> "j" [] c = "K" -> "k" [] c = "L" -> "l"
    [] c = "M" -> "m" [] c = "N" -> "n" [] c = "O" -> "o" [] c = "P" -> "p"
    [] c = "Q" -> "q" [] c = "R" -> "r" [] c = "S" -> "s" [] c = "T" -> "t"
    [] c = "U" -> "u" [] c = "V" -> "v" [] c = "W" -> "w" [] c = "X" -> "x"
    [] c = "Y" -> "y" [] c = "Z" -> "z"
    [] OTHER -> c

\* the characters of the model in the order of their UTF-16 code units (the
\* order Array.prototype.sort uses)
CodeUnitOrder ==
  <<" ", "&", "'", "-", ".",
    "0", "1", "2", "3", "4", "5", "6", "7", "8", "9",
    "A", "B", "C", "D", "E", "F", "G", "H", "I", "J", "K", "L", "M",
    "N", "O", "P", "Q", "R", "S", "T", "U", "V", "W", "X", "Y", "Z",
    "_",
    "a", "b", "c", "d", "e", "f", "g", "h", "i", "j", "k", "l", "m",
    "n", "o", "p", "q", "r", "s", "t", "u", "v", "w", "x", "y", "z">>

\* the regular expression class \d
Digits == {"0", "1", "2", "3", "4", "5", "6", "7", "8", "9"}

\* the regular expression class [a-z]
LowerLetters ==
  {"a", "b", "c", "d", "e", "f", "g", "h", "i", "j", "k", "l", "m",
   "n", "o", "p", "q", "r", "s", "t", "u", "v", "w", "x", "y", "z"}

\* the regular expression class \s
IsSpace(c) == c = " "

\* the regular expression class \w
IsWordChar(c) == Lower(c) \in LowerLetters \/ c \in Digits \/ c = "_"

IsDigit(c) == c \in Digits

(***************************************************************************)
(* Strings                                                                 *)
(***************************************************************************)

Min(a, b) == IF a <= b THEN a ELSE b

Max(a, b) == IF a >= b THEN a ELSE b

\* String.prototype.toLowerCase
toLowerCase(s) == [i \in 1..Len(s) |-> Lower(s[i])]

\* String.prototype.trim
trim(s) ==
  LET nonSpace == {i \in 1..Len(s) : ~IsSpace(s[i])}
      first == CHOOSE i \in nonSpace : \A j \in nonSpace : i <= j
      last == CHOOSE i \in nonSpace : \A j \in nonSpace : i >= j
  IN IF nonSpace = {} THEN <<>> ELSE SubSeq(s, first, last)

\* String.prototype.split(/\s+/): the pieces between maximal runs of
\* whitespace, empty pieces at either end included
splitSpaces(s) ==
  LET F[i \in 0..Len(s)] ==
        IF i = 0 THEN <<<<>>>>
        ELSE LET prev == F[i - 1]
                 k == Len(prev)
             IN IF IsSpace(s[i])
                  THEN IF i > 1 /\ IsSpace(s[i - 1]) THEN prev
                       ELSE Append(prev, <<>>)
                  ELSE [prev EXCEPT ![k] = Append(prev[k], s[i])]
  IN F[Len(s)]

\* Array.prototype.join(' ')
joinSpaces(tokens) ==
  LET F[i \in 0..Len(tokens)] ==
        IF i = 0 THEN <<>>
        ELSE IF i = 1 THEN tokens[1]
        ELSE F[i - 1] \o <<" ">> \o tokens[i]
  IN F[Len(tokens)]

\* the < of JavaScript strings: lexicographic on code units
StrLess(a, b) ==
  LET n == Min(Len(a), Len(b))
      diff == {i \in 1..n : a[i] # b[i]}
      d == CHOOSE i \in diff : \A j \in diff : i <= j
      Rank(c) == CHOOSE k \in 1..Len(CodeUnitOrder) : CodeUnitOrder[k] = c
  IN IF diff = {} THEN Len(a) < Len(b)
     ELSE \E rank \in {[c \in {a[d], b[d]} |-> Rank(c)]} :
            rank[a[d]] < rank[b[d]]

\* does pat occur in s starting at position i
MatchesAt(s, pat, i) ==
  /\ i >= 1
  /\ i + Len(pat) - 1 <= Len(s)
  /\ \A k \in 1..Len(pat) : s[i + k - 1] = pat[k]

\* the regular expression assertion \b between positions i-1 and i of s
WordBoundary(s, i) ==
  LET wordAt == [k \in {i - 1, i} |-> k >= 1 /\ k <= Len(s) /\ IsWordChar(s[k])]
  IN \E w \in {wordAt} : w[i - 1] # w[i]

(***************************************************************************)
(* Rationals                                                               *)
(***************************************************************************)

RECURSIVE GCD(_, _)
GCD(a, b) == IF b = 0 THEN a ELSE GCD(b, a % b)

Rat(n, d) == LET g == GCD(n, d) IN IF n = 0 THEN <<0, 1>> ELSE <<n \div g, d \div g>>

RatLeq(a, b) == a[1] * b[2] <= b[1] * a[2]

\* Math.max on two scores
RatMax(a, b) == IF RatLeq(a, b) THEN b ELSE a

\* score >= t / 1000
AtLeast(score, t) == score[1] * 1000 >= t * score[2]

One == <<1, 1>>

Zero == <<0, 1>>

(***************************************************************************)
(* jaro-winkler.ts: Jaro and Jaro-Winkler similarity                       *)
(***************************************************************************)

\* the characters of s at the positions in S, in order
CharsAt(s, S) ==
  LET F[i \in 0..Len(s)] ==
        IF i = 0 THEN <<>>
        ELSE IF i \in S THEN Append(F[i - 1], s[i]) ELSE F[i - 1]
  IN F[Len(s)]

\* the matching loop of jaroSimilarity: the positions of s1 and of s2 that
\* were matched, s1 scanned left to right, each character taking the first
\* free equal character of s2 inside the window
JaroMatches(s1, s2, matchWindow) ==
  LET F[i \in 0..Len(s1)] ==
        IF i = 0 THEN [m1 |-> {}, m2 |-> {}]
        ELSE LET prev == F[i - 1]
                 start == Max(0, (i - 1) - matchWindow) + 1
                 end == Min((i - 1) + matchWindow + 1, Len(s2))
                 cand == {j \in start..end : j \notin prev.m2 /\ s1[i] = s2[j]}
                 j0 == CHOOSE j \in cand : \A k \in cand : j <= k
             IN IF cand = {} THEN prev
                ELSE [m1 |-> prev.m1 \cup {i}, m2 |-> prev.m2 \cup {j0}]
  IN F[Len(s1)]

\* a variant of jaroSimilarity whose formula leaves out matches / s2.length
\* and counts matches / s1.length twice
jaroSimilarityOfFirst(s1, s2) ==
  LET matchWindow == (Max(Len(s1), Len(s2)) \div 2) - 1
      Similarity(mm) ==
        LET matchCount == Cardinality(mm.m1)
            Transposed(c1, c2) ==
              LET transpositions ==
                    Cardinality({k \in 1..matchCount : c1[k] # c2[k]})
              IN Rat(4 * matchCount * matchCount
                       + (2 * matchCount - transpositions) * Len(s1),
                     6 * matchCount * Len(s1))
        IN IF matchCount = 0 THEN Zero
           ELSE Bind2(CharsAt(s1, mm.m1), CharsAt(s2, mm.m2), Transposed)
  IN IF s1 = s2 THEN One
     ELSE IF Len(s1) = 0 \/ Len(s2) = 0 THEN Zero
     ELSE IF matchWindow < 0 THEN Zero
     ELSE Bind(JaroMatches(s1, s2, matchWindow), Similarity)

jaroSimilarity(s1, s2) ==
  LET matchWindow == (Max(Len(s1), Len(s2)) \div 2) - 1
      Similarity(mm) ==
        LET matchCount == Cardinality(mm.m1)
            Transposed(c1, c2) ==
              LET transpositions ==
                    Cardinality({k \in 1..matchCount : c1[k] # c2[k]})
              IN Rat(2 * matchCount * matchCount * Len(s2)
                       + 2 * matchCount * matchCount * Len(s1)
                       + (2 * matchCount - transpositions) * Len(s1) * Len(s2),
                     6 * matchCount * Len(s1) * Len(s2))
        IN IF matchCount = 0 THEN Zero
           ELSE Bind2(CharsAt(s1, mm.m1), CharsAt(s2, mm.m2), Transposed)
  IN IF s1 = s2 THEN One
     ELSE IF Len(s1) = 0 \/ Len(s2) = 0 THEN Zero
     ELSE IF matchWindow < 0 THEN Zero
     ELSE Bind(JaroMatches(s1, s2, matchWindow), Similarity)

commonPrefixLength(s1, s2) ==
  LET maxPrefix == 4
      n == Min(Min(Len(s1), Len(s2)), maxPrefix)
      diff == {i \in 1..n : s1[i] # s2[i]}
  IN IF diff = {} THEN n
     ELSE (CHOOSE i \in diff : \A j \in diff : i <= j) - 1

\* jaroWinklerSimilarity with the default scalingFactor 0.1
jaroWinklerSimilarity(s1, s2) ==
  LET Winkler(str1, str2) ==
        LET Boosted(jaro, prefix) ==
              Rat(10 * jaro[1] + prefix * (jaro[2] - jaro[1]), 10 * jaro[2])
        IN IF str1 = str2 THEN One
           ELSE IF Len(str1) = 0 \/ Len(str2) = 0 THEN Zero
           ELSE Bind2(jaroSimilarity(str1, str2),
                      commonPrefixLength(str1, str2), Boosted)
  IN Bind2(trim(toLowerCase(s1)), trim(toLowerCase(s2)), Winkler)

(***************************************************************************)
(* token-set-ratio.ts: tokenization and token set ratio                    *)
(***************************************************************************)

tokenize(str) ==
  LET Clean(lowered) ==
        [i \in 1..Len(lowered) |->
           IF IsWordChar(lowered[i]) \/ IsSpace(lowered[i])
             THEN lowered[i] ELSE " "]
      pieces == SelectSeq(splitSpaces(Bind(toLowerCase(str), Clean)),
                          LAMBDA t : Len(t) > 0)
  IN IF Len(str) = 0 THEN <<>>
     ELSE SelectSeq(pieces, LAMBDA t : Len(t) > 1 \/ IsDigit(t[1]))

\* new Set(tokens): the distinct tokens in order of first occurrence
uniqueTokens(tokens) ==
  LET F[i \in 0..Len(tokens)] ==
        IF i = 0 THEN <<>>
        ELSE IF \E k \in 1..Len(F[i - 1]) : F[i - 1][k] = tokens[i]
               THEN F[i - 1]
               ELSE Append(F[i - 1], tokens[i])
  IN F[Len(tokens)]

\* [...tokens].sort(): insertion into ascending code-unit order
sortTokens(tokens) ==
  LET Insert(sorted, t) ==
        LET Place(before) ==
              before \o <<t>> \o SubSeq(sorted, Len(before) + 1, Len(sorted))
        IN Bind(SelectSeq(sorted, LAMBDA u : ~StrLess(t, u)), Place)
      F[i \in 0..Len(tokens)] ==
        IF i = 0 THEN <<>> ELSE Insert(F[i - 1], tokens[i])
  IN F[Len(tokens)]

sortedTokenString(tokens) == joinSpaces(sortTokens(tokens))

tokenSortRatio(s1, s2) ==
  LET Ratio(tokens1, tokens2) ==
        IF Len(tokens1) = 0 /\ Len(tokens2) = 0 THEN One
        ELSE IF Len(tokens1) = 0 \/ Len(tokens2) = 0 THEN Zero
        ELSE jaroWinklerSimilarity(sortedTokenString(tokens1),
                                   sortedTokenString(tokens2))
  IN Bind2(tokenize(s1), tokenize(s2), Ratio)

SeqHas(seq, x) == \E k \in 1..Len(seq) : seq[k] = x

\* a variant of tokenSetRatio that scores only combined1 against combined2
tokenSetRatioCombinedOnly(s1, s2) ==
  LET Scores(intersectionSorted, combined1, combined2) ==
        IF intersectionSorted = combined1 /\ combined1 = combined2 THEN One
        ELSE IF Len(combined1) > 0 /\ Len(combined2) > 0
          THEN jaroWinklerSimilarity(combined1, combined2)
        ELSE Zero
      Ratio(tokens1, tokens2) ==
        LET Sets(intersection, remainder1, remainder2) ==
              IF Len(intersection) = 0 THEN tokenSortRatio(s1, s2)
              ELSE Bind3(sortedTokenString(intersection),
                         sortedTokenString(intersection \o remainder1),
                         sortedTokenString(intersection \o remainder2),
                         Scores)
        IN IF Len(tokens1) = 0 /\ Len(tokens2) = 0 THEN One
           ELSE IF Len(tokens1) = 0 \/ Len(tokens2) = 0 THEN Zero
           ELSE Bind3(SelectSeq(tokens1, LAMBDA t : SeqHas(tokens2, t)),
                      SelectSeq(tokens1, LAMBDA t : ~SeqHas(tokens2, t)),
                      SelectSeq(tokens2, LAMBDA t : ~SeqHas(tokens1, t)),
                      Sets)
  IN Bind2(uniqueTokens(tokenize(s1)), uniqueTokens(tokenize(s2)), Ratio)

tokenSetRatio(s1, s2) ==
  LET Scores(intersectionSorted, combined1, combined2) ==
        LET Score(a, b) == IF Len(a) > 0 /\ Len(b) > 0
                             THEN jaroWinklerSimilarity(a, b)
                             ELSE Zero
            pairs == <<<<intersectionSorted, combined1>>,
                       <<intersectionSorted, combined2>>,
                       <<combined1, combined2>>>>
            Best(score) ==
              RatMax(RatMax(score[1], score[2]), RatMax(score[3], Zero))
        IN IF intersectionSorted = combined1 /\ combined1 = combined2 THEN One
           ELSE Bind([k \in 1..3 |-> Score(pairs[k][1], pairs[k][2])], Best)
      Ratio(tokens1, tokens2) ==
        LET Sets(intersection, remainder1, remainder2) ==
              IF Len(intersection) = 0 THEN tokenSortRatio(s1, s2)
              ELSE Bind3(sortedTokenString(intersection),
                         sortedTokenString(intersection \o remainder1),
                         sortedTokenString(intersection \o remainder2),
                         Scores)
        IN IF Len(tokens1) = 0 /\ Len(tokens2) = 0 THEN One
           ELSE IF Len(tokens1) = 0 \/ Len(tokens2) = 0 THEN Zero
           ELSE Bind3(SelectSeq(tokens1, LAMBDA t : SeqHas(tokens2, t)),
                      SelectSeq(tokens1, LAMBDA t : ~SeqHas(tokens2, t)),
                      SelectSeq(tokens2, LAMBDA t : ~SeqHas(tokens1, t)),
                      Sets)
  IN Bind2(uniqueTokens(tokenize(s1)), uniqueTokens(tokenize(s2)), Ratio)

(***************************************************************************)
(* token-set-ratio.ts: word lists                                          *)
(***************************************************************************)

GENERIC_NAMES ==
  {
    <<"h","o","u","s","e">>, <<"c","h","u","r","c","h">>, <<"s","c","h","o","o","l">>,
    <<"f","a","c","t","o","r","y">>, <<"i","n","d","u","s","t","r","i","a","l">>,
    <<"i","n","d","u","s","t","r","y">>, <<"b","u","i","l","d","i","n","g">>, <<"f","a","r","m">>,
    <<"b","a","r","n">>, <<"m","i","l","l">>, <<"w","a","r","e","h","o","u","s","e">>,
    <<"s","t","o","r","e">>, <<"s","h","o","p">>, <<"h","o","t","e","l">>, <<"m","o","t","e","l">>,
    <<"h","o","s","p","i","t","a","l">>, <<"o","f","f","i","c","e">>,
    <<"s","t","a","t","i","o","n">>, <<"t","o","w","e","r">>, <<"p","l","a","n","t">>,
    <<"c","e","n","t","e","r">>, <<"s","i","t","e">>, <<"p","l","a","c","e">>,
    <<"l","o","c","a","t","i","o","n">>, <<"p","o","i","n","t">>, <<"c","a","r","s">>,
    <<"t","r","a","i","n","s">>, <<"t","r","u","c","k","s">>
  }

\* BLOCKING_WORDS.directions
BLOCKING_DIRECTIONS ==
  {
    <<"n","o","r","t","h">>, <<"s","o","u","t","h">>, <<"e","a","s","t">>, <<"w","e","s","t">>,
    <<"u","p","p","e","r">>, <<"l","o","w","e","r">>, <<"i","n","n","e","r">>,
    <<"o","u","t","e","r">>
  }

\* BLOCKING_WORDS.temporal
BLOCKING_TEMPORAL ==
  {
    <<"o","l","d">>, <<"n","e","w">>, <<"f","o","r","m","e","r">>, <<"c","u","r","r","e","n","t">>,
    <<"o","r","i","g","i","n","a","l">>, <<"m","o","d","e","r","n">>,
    <<"h","i","s","t","o","r","i","c">>
  }

\* BLOCKING_WORDS.numbered
BLOCKING_NUMBERED ==
  {
    <<"f","i","r","s","t">>, <<"s","e","c","o","n","d">>, <<"t","h","i","r","d">>,
    <<"f","o","u","r","t","h">>, <<"f","i","f","t","h">>, <<"1","s","t">>, <<"2","n","d">>,
    <<"3","r","d">>, <<"4","t","h">>, <<"5","t","h">>
  }

\* the keyword of each pattern /\\b<keyword>\\s*[a-z0-9]+\\b/i, in order
IDENTIFIER_PATTERNS ==
  <<
    <<"b","u","i","l","d","i","n","g">>, <<"u","n","i","t">>, <<"w","i","n","g">>,
    <<"w","a","r","d">>, <<"p","h","a","s","e">>, <<"s","e","c","t","i","o","n">>,
    <<"b","l","o","c","k">>, <<"l","o","t">>
  >>

SUGGESTION_GENERIC_WORDS ==
  {
    <<"h","o","u","s","e">>, <<"h","o","u","s","e","s">>, <<"c","h","u","r","c","h">>,
    <<"c","h","u","r","c","h","e","s">>, <<"s","c","h","o","o","l">>,
    <<"s","c","h","o","o","l","s">>, <<"f","a","c","t","o","r","y">>,
    <<"i","n","d","u","s","t","r","i","a","l">>, <<"i","n","d","u","s","t","r","y">>,
    <<"b","u","i","l","d","i","n","g">>, <<"f","a","r","m">>, <<"f","a","r","m","s">>,
    <<"b","a","r","n">>, <<"m","i","l","l">>, <<"w","a","r","e","h","o","u","s","e">>,
    <<"s","t","o","r","e">>, <<"s","h","o","p">>, <<"h","o","t","e","l">>, <<"m","o","t","e","l">>,
    <<"h","o","s","p","i","t","a","l">>, <<"o","f","f","i","c","e">>,
    <<"s","t","a","t","i","o","n">>, <<"t","o","w","e","r">>, <<"p","l","a","n","t">>,
    <<"c","e","n","t","e","r">>, <<"s","i","t","e">>, <<"p","l","a","c","e">>,
    <<"l","o","c","a","t","i","o","n">>, <<"p","o","i","n","t">>, <<"c","a","r","s">>,
    <<"t","r","a","i","n","s">>, <<"t","r","u","c","k","s">>, <<"q","u","a","r","r","y">>,
    <<"c","a","b","i","n">>, <<"g","r","e","e","n","h","o","u","s","e">>,
    <<"t","h","e","a","t","e","r">>, <<"t","r","a","i","l","s">>, <<"t","r","a","i","l">>
  }

SUGGESTION_REGION_WORDS ==
  {
    <<"c","n","y">>, <<"w","n","y">>, <<"n","n","y">>, <<"e","n","y">>, <<"p","a">>, <<"n","y">>,
    <<"i","n">>, <<"f","i","n","g","e","r","l","a","k","e","s">>, <<"b","u","f","f","a","l","o">>,
    <<"s","y","r","a","c","u","s","e">>, <<"r","o","c","h","e","s","t","e","r">>,
    <<"b","i","n","g","h","a","m","t","o","n">>, <<"p","i","t","t","s","b","u","r","g","h">>,
    <<"a","l","b","a","n","y">>, <<"s","a","y","r","e">>, <<"e","l","m","i","r","a">>,
    <<"w","a","t","e","r","l","o","o">>, <<"l","o","c","k","p","o","r","t">>,
    <<"c","o","r","t","l","a","n","d">>, <<"m","a","i","n","e">>, <<"o","h","i","o">>
  }

(***************************************************************************)
(* token-set-ratio.ts: blocking words and generic names                    *)
(***************************************************************************)

\* the regular expression class [a-z0-9]
IsLowerAlnum(c) == c \in LowerLetters \/ c \in Digits

\* the first position at or after i of s that does not satisfy the class
\* (Len(s) + 1 when the run reaches the end)
RunEnd(s, i, InClass(_)) ==
  LET stops == {j \in i..Len(s) : ~InClass(s[j])}
  IN IF stops = {} THEN Len(s) + 1
     ELSE CHOOSE j \in stops : \A k \in stops : j <= k

\* s.match(/\b<keyword>\s*[a-z0-9]+\b/): the text of the leftmost match, as
\* a sequence of zero or one strings.  At a start position the greedy \s*
\* and [a-z0-9]+ take the whole runs; backing off either one cannot make
\* the match succeed.
identifierMatch(s, keyword) ==
  LET MatchEnd(i) ==
        LET afterSpaces == RunEnd(s, i + Len(keyword), IsSpace)
        IN RunEnd(s, afterSpaces, IsLowerAlnum)
      IsMatch(i) ==
        /\ WordBoundary(s, i)
        /\ MatchesAt(s, keyword, i)
        /\ MatchEnd(i) > RunEnd(s, i + Len(keyword), IsSpace)
        /\ WordBoundary(s, MatchEnd(i))
      Leftmost(starts) ==
        LET first == CHOOSE i \in starts : \A j \in starts : i <= j
        IN IF starts = {} THEN <<>>
           ELSE <<SubSeq(s, first, MatchEnd(first) - 1)>>
  IN Bind({i \in 1..Len(s) : IsMatch(i)}, Leftmost)

extractBlockingWords(name) ==
  LET Identifiers(lowered) ==
        LET ids[k \in 0..Len(IDENTIFIER_PATTERNS)] ==
              IF k = 0 THEN <<>>
              ELSE ids[k - 1] \o identifierMatch(lowered, IDENTIFIER_PATTERNS[k])
        IN ids[Len(IDENTIFIER_PATTERNS)]
      Words(tokens, identifiers) ==
        LET Among(words) == uniqueTokens(SelectSeq(tokens, LAMBDA t : t \in words))
        IN [directions |-> Among(BLOCKING_DIRECTIONS),
            temporal |-> Among(BLOCKING_TEMPORAL),
            numbered |-> Among(BLOCKING_NUMBERED),
            identifiers |-> identifiers]
  IN Bind2(tokenize(name), Bind(toLowerCase(name), Identifiers), Words)

\* the nested loops of checkBlockingConflict over one category: the first
\* pair of different values, as a sequence of zero or one pairs
firstConflict(list1, list2) ==
  LET pairs == {p \in (1..Len(list1)) \X (1..Len(list2)) :
                  list1[p[1]] # list2[p[2]]}
      first == CHOOSE p \in pairs : \A q \in pairs :
                 p[1] < q[1] \/ (p[1] = q[1] /\ p[2] <= q[2])
  IN IF pairs = {} THEN <<>>
     ELSE <<<<list1[first[1]], list2[first[2]]>>>>

\* a variant of checkBlockingConflict that checks the temporal words before
\* the direction words
checkBlockingConflictTemporalFirst(name1, name2) ==
  LET Conflict(blocking1, blocking2) ==
        LET dir == firstConflict(blocking1.directions, blocking2.directions)
            temp == firstConflict(blocking1.temporal, blocking2.temporal)
            num == firstConflict(blocking1.numbered, blocking2.numbered)
            id == firstConflict(blocking1.identifiers, blocking2.identifiers)
        IN IF temp # <<>>
             THEN [hasConflict |-> TRUE, conflictType |-> "temporal", details |-> temp]
           ELSE IF dir # <<>>
             THEN [hasConflict |-> TRUE, conflictType |-> "direction", details |-> dir]
           ELSE IF num # <<>>
             THEN [hasConflict |-> TRUE, conflictType |-> "numbered", details |-> num]
           ELSE IF id # <<>>
             THEN [hasConflict |-> TRUE, conflictType |-> "identifier", details |-> id]
           ELSE [hasConflict |-> FALSE, conflictType |-> "null", details |-> <<>>]
  IN CHOOSE r \in {Conflict(b1, b2) : b1 \in {extractBlockingWords(name1)},
                                      b2 \in {extractBlockingWords(name2)}} : TRUE

checkBlockingConflict(name1, name2) ==
  LET Conflict(blocking1, blocking2) ==
        LET dir == firstConflict(blocking1.directions, blocking2.directions)
            temp == firstConflict(blocking1.temporal, blocking2.temporal)
            num == firstConflict(blocking1.numbered, blocking2.numbered)
            id == firstConflict(blocking1.identifiers, blocking2.identifiers)
        IN IF dir # <<>>
             THEN [hasConflict |-> TRUE, conflictType |-> "direction", details |-> dir]
           ELSE IF temp # <<>>
             THEN [hasConflict |-> TRUE, conflictType |-> "temporal", details |-> temp]
           ELSE IF num # <<>>
             THEN [hasConflict |-> TRUE, conflictType |-> "numbered", details |-> num]
           ELSE IF id # <<>>
             THEN [hasConflict |-> TRUE, conflictType |-> "identifier", details |-> id]
           ELSE [hasConflict |-> FALSE, conflictType |-> "null", details |-> <<>>]
  IN \* each name's blocking words are extracted once
     CHOOSE r \in {Conflict(b1, b2) : b1 \in {extractBlockingWords(name1)},
                                      b2 \in {extractBlockingWords(name2)}} : TRUE

isGenericName(name) ==
  LET Generic(tokens) ==
        IF Len(tokens) = 1 /\ tokens[1] \in GENERIC_NAMES THEN TRUE
        ELSE IF /\ Len(tokens) = 2
                /\ \E k \in 1..2 : tokens[k] \in SUGGESTION_GENERIC_WORDS
                /\ \E k \in 1..2 : tokens[k] \in SUGGESTION_REGION_WORDS
          THEN TRUE
        ELSE FALSE
  IN IF Len(name) = 0 THEN TRUE ELSE Bind(tokenize(name), Generic)

combinedFuzzyMatch(s1, s2) ==
  LET Both(jw, tsr) ==
        [jaroWinkler |-> jw, tokenSetRatio |-> tsr, combined |-> RatMax(jw, tsr)]
  IN Bind2(jaroWinklerSimilarity(s1, s2), tokenSetRatio(s1, s2), Both)

(***************************************************************************)
(* jaro-winkler.ts: configuration and alias dictionary                     *)
(***************************************************************************)

\* DEFAULT_CONFIG.NAME_SIMILARITY_THRESHOLD, in thousandths
NAME_SIMILARITY_THRESHOLD == 850

\* DEFAULT_CONFIG.WORD_OVERLAP_BOOST, in thousandths
WORD_OVERLAP_BOOST == 100

\* DEFAULT_CONFIG.MIN_BOOSTED_THRESHOLD, in thousandths
MIN_BOOSTED_THRESHOLD == 700

\* [pattern, replacement]
MULTI_WORD_ALIASES ==
  <<
    <<<<"t","b"," ","h","o","s","p","i","t","a","l">>, <<"t","u","b","e","r","c","u","l","o","s","i","s"," ","s","a","n","a","t","o","r","i","u","m">>>>,
    <<<<"t","b"," ","s","a","n">>, <<"t","u","b","e","r","c","u","l","o","s","i","s"," ","s","a","n","a","t","o","r","i","u","m">>>>,
    <<<<"i","n","s","a","n","e"," ","a","s","y","l","u","m">>, <<"m","e","n","t","a","l"," ","h","o","s","p","i","t","a","l">>>>,
    <<<<"l","u","n","a","t","i","c"," ","a","s","y","l","u","m">>, <<"m","e","n","t","a","l"," ","h","o","s","p","i","t","a","l">>>>,
    <<<<"s","t","a","t","e"," ","h","o","s","p","i","t","a","l">>, <<"s","t","a","t","e"," ","p","s","y","c","h","i","a","t","r","i","c"," ","h","o","s","p","i","t","a","l">>>>,
    <<<<"p","o","o","r"," ","h","o","u","s","e">>, <<"p","o","o","r","h","o","u","s","e">>>>,
    <<<<"a","l","m","s"," ","h","o","u","s","e">>, <<"a","l","m","s","h","o","u","s","e">>>>,
    <<<<"c","h","i","l","d","r","e","n","s"," ","h","o","m","e">>, <<"c","h","i","l","d","r","e","n","s"," ","h","o","m","e">>>>,
    <<<<"h","i","g","h"," ","s","c","h","o","o","l">>, <<"h","i","g","h"," ","s","c","h","o","o","l">>>>,
    <<<<"j","r"," ","h","i","g","h">>, <<"j","u","n","i","o","r"," ","h","i","g","h"," ","s","c","h","o","o","l">>>>,
    <<<<"m","i","d","d","l","e"," ","s","c","h","o","o","l">>, <<"m","i","d","d","l","e"," ","s","c","h","o","o","l">>>>,
    <<<<"v","o","c","a","t","i","o","n","a","l"," ","s","c","h","o","o","l">>, <<"v","o","c","a","t","i","o","n","a","l"," ","s","c","h","o","o","l">>>>,
    <<<<"e","l","e","m","e","n","t","a","r","y"," ","s","c","h","o","o","l">>, <<"e","l","e","m","e","n","t","a","r","y"," ","s","c","h","o","o","l">>>>,
    <<<<"p","o","s","t"," ","o","f","f","i","c","e">>, <<"p","o","s","t"," ","o","f","f","i","c","e">>>>,
    <<<<"c","o","u","r","t"," ","h","o","u","s","e">>, <<"c","o","u","r","t","h","o","u","s","e">>>>,
    <<<<"o","p","e","r","a"," ","h","o","u","s","e">>, <<"o","p","e","r","a"," ","h","o","u","s","e">>>>,
    <<<<"f","a","i","r"," ","g","r","o","u","n","d","s">>, <<"f","a","i","r","g","r","o","u","n","d","s">>>>,
    <<<<"r","a","c","e"," ","t","r","a","c","k">>, <<"r","a","c","e","t","r","a","c","k">>>>,
    <<<<"s","t","o","c","k"," ","y","a","r","d","s">>, <<"s","t","o","c","k","y","a","r","d","s">>>>,
    <<<<"g","e","n","e","r","a","l"," ","e","l","e","c","t","r","i","c">>, <<"g","e","n","e","r","a","l"," ","e","l","e","c","t","r","i","c">>>>,
    <<<<"g","e","n","e","r","a","l"," ","m","o","t","o","r","s">>, <<"g","e","n","e","r","a","l"," ","m","o","t","o","r","s">>>>,
    <<<<"r","a","d","i","o"," ","c","o","r","p","o","r","a","t","i","o","n"," ","a","m","e","r","i","c","a">>, <<"r","a","d","i","o"," ","c","o","r","p","o","r","a","t","i","o","n"," ","a","m","e","r","i","c","a">>>>,
    <<<<"i","n","t","e","r","n","a","t","i","o","n","a","l"," ","b","u","s","i","n","e","s","s"," ","m","a","c","h","i","n","e","s">>, <<"i","n","t","e","r","n","a","t","i","o","n","a","l"," ","b","u","s","i","n","e","s","s"," ","m","a","c","h","i","n","e","s">>>>,
    <<<<"a","m","e","r","i","c","a","n"," ","t","e","l","e","p","h","o","n","e"," ","t","e","l","e","g","r","a","p","h">>, <<"a","m","e","r","i","c","a","n"," ","t","e","l","e","p","h","o","n","e"," ","t","e","l","e","g","r","a","p","h">>>>,
    <<<<"b","e","l","l"," ","t","e","l","e","p","h","o","n","e">>, <<"b","e","l","l"," ","t","e","l","e","p","h","o","n","e">>>>,
    <<<<"w","e","s","t","e","r","n"," ","e","l","e","c","t","r","i","c">>, <<"w","e","s","t","e","r","n"," ","e","l","e","c","t","r","i","c">>>>,
    <<<<"u","n","i","o","n"," ","c","a","r","b","i","d","e">>, <<"u","n","i","o","n"," ","c","a","r","b","i","d","e">>>>,
    <<<<"b","e","t","h","l","e","h","e","m"," ","s","t","e","e","l">>, <<"b","e","t","h","l","e","h","e","m"," ","s","t","e","e","l">>>>,
    <<<<"u","s"," ","s","t","e","e","l">>, <<"u","n","i","t","e","d"," ","s","t","a","t","e","s"," ","s","t","e","e","l">>>>,
    <<<<"u","n","i","t","e","d"," ","s","t","a","t","e","s"," ","s","t","e","e","l">>, <<"u","n","i","t","e","d"," ","s","t","a","t","e","s"," ","s","t","e","e","l">>>>,
    <<<<"e","a","s","t","m","a","n"," ","k","o","d","a","k">>, <<"e","a","s","t","m","a","n"," ","k","o","d","a","k">>>>,
    <<<<"d","o","w"," ","c","h","e","m","i","c","a","l">>, <<"d","o","w"," ","c","h","e","m","i","c","a","l">>>>,
    <<<<"g","o","o","d","y","e","a","r"," ","t","i","r","e">>, <<"g","o","o","d","y","e","a","r"," ","t","i","r","e">>>>,
    <<<<"f","i","r","e","s","t","o","n","e"," ","t","i","r","e">>, <<"f","i","r","e","s","t","o","n","e"," ","t","i","r","e">>>>,
    <<<<"g","o","o","d","r","i","c","h"," ","t","i","r","e">>, <<"g","o","o","d","r","i","c","h"," ","t","i","r","e">>>>,
    <<<<"c","h","a","m","p","i","o","n"," ","s","p","a","r","k"," ","p","l","u","g">>, <<"c","h","a","m","p","i","o","n"," ","s","p","a","r","k"," ","p","l","u","g">>>>,
    <<<<"a","c"," ","s","p","a","r","k"," ","p","l","u","g">>, <<"a","c"," ","s","p","a","r","k"," ","p","l","u","g">>>>,
    <<<<"d","e","l","c","o"," ","e","l","e","c","t","r","o","n","i","c","s">>, <<"d","e","l","c","o"," ","e","l","e","c","t","r","o","n","i","c","s">>>>,
    <<<<"f","i","s","h","e","r"," ","b","o","d","y">>, <<"f","i","s","h","e","r"," ","b","o","d","y">>>>,
    <<<<"p","e","n","n","s","y","l","v","a","n","i","a"," ","r","a","i","l","r","o","a","d">>, <<"p","e","n","n","s","y","l","v","a","n","i","a"," ","r","a","i","l","r","o","a","d">>>>,
    <<<<"n","e","w"," ","y","o","r","k"," ","c","e","n","t","r","a","l">>, <<"n","e","w"," ","y","o","r","k"," ","c","e","n","t","r","a","l">>>>,
    <<<<"b","a","l","t","i","m","o","r","e"," ","o","h","i","o">>, <<"b","a","l","t","i","m","o","r","e"," ","o","h","i","o">>>>,
    <<<<"e","r","i","e"," ","r","a","i","l","r","o","a","d">>, <<"e","r","i","e"," ","r","a","i","l","r","o","a","d">>>>,
    <<<<"d","e","l","a","w","a","r","e"," ","l","a","c","k","a","w","a","n","n","a">>, <<"d","e","l","a","w","a","r","e"," ","l","a","c","k","a","w","a","n","n","a">>>>,
    <<<<"l","e","h","i","g","h"," ","v","a","l","l","e","y">>, <<"l","e","h","i","g","h"," ","v","a","l","l","e","y">>>>,
    <<<<"r","e","a","d","i","n","g"," ","r","a","i","l","r","o","a","d">>, <<"r","e","a","d","i","n","g"," ","r","a","i","l","r","o","a","d">>>>,
    <<<<"s","o","u","t","h","e","r","n"," ","r","a","i","l","w","a","y">>, <<"s","o","u","t","h","e","r","n"," ","r","a","i","l","w","a","y">>>>,
    <<<<"n","o","r","t","h","e","r","n"," ","p","a","c","i","f","i","c">>, <<"n","o","r","t","h","e","r","n"," ","p","a","c","i","f","i","c">>>>,
    <<<<"s","o","u","t","h","e","r","n"," ","p","a","c","i","f","i","c">>, <<"s","o","u","t","h","e","r","n"," ","p","a","c","i","f","i","c">>>>,
    <<<<"u","n","i","o","n"," ","p","a","c","i","f","i","c">>, <<"u","n","i","o","n"," ","p","a","c","i","f","i","c">>>>,
    <<<<"s","a","n","t","a"," ","f","e">>, <<"s","a","n","t","a"," ","f","e">>>>,
    <<<<"b","u","r","l","i","n","g","t","o","n"," ","r","a","i","l","r","o","a","d">>, <<"b","u","r","l","i","n","g","t","o","n"," ","r","a","i","l","r","o","a","d">>>>,
    <<<<"m","i","l","w","a","u","k","e","e"," ","r","o","a","d">>, <<"m","i","l","w","a","u","k","e","e"," ","r","o","a","d">>>>,
    <<<<"g","r","e","a","t"," ","n","o","r","t","h","e","r","n">>, <<"g","r","e","a","t"," ","n","o","r","t","h","e","r","n">>>>,
    <<<<"c","a","n","a","d","i","a","n"," ","p","a","c","i","f","i","c">>, <<"c","a","n","a","d","i","a","n"," ","p","a","c","i","f","i","c">>>>,
    <<<<"c","a","n","a","d","i","a","n"," ","n","a","t","i","o","n","a","l">>, <<"c","a","n","a","d","i","a","n"," ","n","a","t","i","o","n","a","l">>>>,
    <<<<"f","o","r","d"," ","m","o","t","o","r">>, <<"f","o","r","d"," ","m","o","t","o","r">>>>,
    <<<<"g","e","n","e","r","a","l"," ","m","o","t","o","r","s"," ","t","r","u","c","k">>, <<"g","e","n","e","r","a","l"," ","m","o","t","o","r","s"," ","t","r","u","c","k">>>>,
    <<<<"a","m","e","r","i","c","a","n"," ","m","o","t","o","r","s">>, <<"a","m","e","r","i","c","a","n"," ","m","o","t","o","r","s">>>>,
    <<<<"h","u","d","s","o","n"," ","m","o","t","o","r">>, <<"h","u","d","s","o","n"," ","m","o","t","o","r">>>>,
    <<<<"n","a","s","h"," ","m","o","t","o","r","s">>, <<"n","a","s","h"," ","m","o","t","o","r","s">>>>,
    <<<<"k","a","i","s","e","r"," ","m","o","t","o","r","s">>, <<"k","a","i","s","e","r"," ","m","o","t","o","r","s">>>>,
    <<<<"w","i","l","l","y","s"," ","o","v","e","r","l","a","n","d">>, <<"w","i","l","l","y","s"," ","o","v","e","r","l","a","n","d">>>>,
    <<<<"a","i","r"," ","f","o","r","c","e"," ","b","a","s","e">>, <<"a","i","r"," ","f","o","r","c","e"," ","b","a","s","e">>>>,
    <<<<"n","a","v","a","l"," ","a","i","r"," ","s","t","a","t","i","o","n">>, <<"n","a","v","a","l"," ","a","i","r"," ","s","t","a","t","i","o","n">>>>,
    <<<<"a","r","m","y"," ","b","a","s","e">>, <<"a","r","m","y"," ","b","a","s","e">>>>,
    <<<<"n","a","t","i","o","n","a","l"," ","g","u","a","r","d"," ","a","r","m","o","r","y">>, <<"n","a","t","i","o","n","a","l"," ","g","u","a","r","d"," ","a","r","m","o","r","y">>>>,
    <<<<"p","o","w","e","r"," ","p","l","a","n","t">>, <<"p","o","w","e","r"," ","p","l","a","n","t">>>>,
    <<<<"p","o","w","e","r"," ","h","o","u","s","e">>, <<"p","o","w","e","r","h","o","u","s","e">>>>,
    <<<<"g","e","n","e","r","a","t","i","n","g"," ","s","t","a","t","i","o","n">>, <<"g","e","n","e","r","a","t","i","n","g"," ","s","t","a","t","i","o","n">>>>,
    <<<<"p","u","m","p","i","n","g"," ","s","t","a","t","i","o","n">>, <<"p","u","m","p","i","n","g"," ","s","t","a","t","i","o","n">>>>,
    <<<<"w","a","t","e","r"," ","w","o","r","k","s">>, <<"w","a","t","e","r","w","o","r","k","s">>>>,
    <<<<"s","e","w","a","g","e"," ","t","r","e","a","t","m","e","n","t"," ","p","l","a","n","t">>, <<"s","e","w","a","g","e"," ","t","r","e","a","t","m","e","n","t"," ","p","l","a","n","t">>>>,
    <<<<"g","a","s"," ","w","o","r","k","s">>, <<"g","a","s","w","o","r","k","s">>>>,
    <<<<"g","r","a","i","n"," ","e","l","e","v","a","t","o","r">>, <<"g","r","a","i","n"," ","e","l","e","v","a","t","o","r">>>>,
    <<<<"f","r","e","i","g","h","t"," ","d","e","p","o","t">>, <<"f","r","e","i","g","h","t"," ","d","e","p","o","t">>>>,
    <<<<"p","a","c","k","i","n","g"," ","p","l","a","n","t">>, <<"p","a","c","k","i","n","g"," ","p","l","a","n","t">>>>,
    <<<<"c","a","n","n","i","n","g"," ","f","a","c","t","o","r","y">>, <<"c","a","n","n","i","n","g"," ","f","a","c","t","o","r","y">>>>,
    <<<<"t","e","x","t","i","l","e"," ","m","i","l","l">>, <<"t","e","x","t","i","l","e"," ","m","i","l","l">>>>,
    <<<<"c","o","t","t","o","n"," ","m","i","l","l">>, <<"c","o","t","t","o","n"," ","m","i","l","l">>>>,
    <<<<"w","o","o","l","e","n"," ","m","i","l","l">>, <<"w","o","o","l","e","n"," ","m","i","l","l">>>>,
    <<<<"p","a","p","e","r"," ","m","i","l","l">>, <<"p","a","p","e","r"," ","m","i","l","l">>>>,
    <<<<"l","u","m","b","e","r"," ","m","i","l","l">>, <<"l","u","m","b","e","r"," ","m","i","l","l">>>>,
    <<<<"i","r","o","n"," ","f","o","u","n","d","r","y">>, <<"i","r","o","n"," ","f","o","u","n","d","r","y">>>>,
    <<<<"c","o","a","l"," ","m","i","n","e">>, <<"c","o","a","l"," ","m","i","n","e">>>>,
    <<<<"c","o","a","l"," ","b","r","e","a","k","e","r">>, <<"c","o","a","l"," ","b","r","e","a","k","e","r">>>>,
    <<<<"m","i","n","e"," ","t","i","p","p","l","e">>, <<"m","i","n","e"," ","t","i","p","p","l","e">>>>,
    <<<<"m","i","n","e"," ","s","h","a","f","t">>, <<"m","i","n","e"," ","s","h","a","f","t">>>>,
    <<<<"s","t","o","n","e"," ","q","u","a","r","r","y">>, <<"s","t","o","n","e"," ","q","u","a","r","r","y">>>>,
    <<<<"g","r","a","v","e","l"," ","p","i","t">>, <<"g","r","a","v","e","l"," ","p","i","t">>>>,
    <<<<"d","a","i","r","y"," ","f","a","r","m">>, <<"d","a","i","r","y"," ","f","a","r","m">>>>,
    <<<<"g","r","a","n","g","e"," ","h","a","l","l">>, <<"g","r","a","n","g","e"," ","h","a","l","l">>>>,
    <<<<"s","w","i","m","m","i","n","g"," ","p","o","o","l">>, <<"s","w","i","m","m","i","n","g"," ","p","o","o","l">>>>,
    <<<<"c","o","u","n","t","y"," ","j","a","i","l">>, <<"c","o","u","n","t","y"," ","j","a","i","l">>>>,
    <<<<"s","t","a","t","e"," ","p","r","i","s","o","n">>, <<"s","t","a","t","e"," ","p","r","i","s","o","n">>>>,
    <<<<"m","e","d","i","c","a","l"," ","c","e","n","t","e","r">>, <<"m","e","d","i","c","a","l"," ","c","e","n","t","e","r">>>>,
    <<<<"n","u","r","s","i","n","g"," ","h","o","m","e">>, <<"n","u","r","s","i","n","g"," ","h","o","m","e">>>>,
    <<<<"o","r","p","h","a","n"," ","a","s","y","l","u","m">>, <<"o","r","p","h","a","n"," ","a","s","y","l","u","m">>>>
  >>

\* abbreviation -> expansion
SINGLE_WORD_ALIASES ==
  <<
    <<<<"e","l","e","m">>, <<"e","l","e","m","e","n","t","a","r","y">>>>,
    <<<<"h","s">>, <<"h","i","g","h"," ","s","c","h","o","o","l">>>>,
    <<<<"h","i","g","h","s","c","h","o","o","l">>, <<"h","i","g","h"," ","s","c","h","o","o","l">>>>,
    <<<<"j","h","s">>, <<"j","u","n","i","o","r"," ","h","i","g","h">>>>,
    <<<<"m","s">>, <<"m","i","d","d","l","e"," ","s","c","h","o","o","l">>>>,
    <<<<"u","n","i","v">>, <<"u","n","i","v","e","r","s","i","t","y">>>>,
    <<<<"c","o","l","l">>, <<"c","o","l","l","e","g","e">>>>,
    <<<<"a","c","a","d">>, <<"a","c","a","d","e","m","y">>>>,
    <<<<"i","n","s","t">>, <<"i","n","s","t","i","t","u","t","e">>>>,
    <<<<"s","e","m">>, <<"s","e","m","i","n","a","r","y">>>>,
    <<<<"v","o","c">>, <<"v","o","c","a","t","i","o","n","a","l">>>>,
    <<<<"t","e","c","h">>, <<"t","e","c","h","n","i","c","a","l">>>>,
    <<<<"h","o","s","p">>, <<"h","o","s","p","i","t","a","l">>>>,
    <<<<"s","a","n">>, <<"s","a","n","a","t","o","r","i","u","m">>>>,
    <<<<"s","a","n","a","t">>, <<"s","a","n","a","t","o","r","i","u","m">>>>,
    <<<<"p","s","y","c","h">>, <<"p","s","y","c","h","i","a","t","r","i","c">>>>,
    <<<<"i","n","f","i","r","m">>, <<"i","n","f","i","r","m","a","r","y">>>>,
    <<<<"m","e","d">>, <<"m","e","d","i","c","a","l">>>>,
    <<<<"c","t","r">>, <<"c","e","n","t","e","r">>>>,
    <<<<"c","n","t","r">>, <<"c","e","n","t","e","r">>>>,
    <<<<"r","e","h","a","b">>, <<"r","e","h","a","b","i","l","i","t","a","t","i","o","n">>>>,
    <<<<"n","r","s","g">>, <<"n","u","r","s","i","n","g">>>>,
    <<<<"p","o","o","r","h","o","u","s","e">>, <<"p","o","o","r","h","o","u","s","e">>>>,
    <<<<"a","l","m","s","h","o","u","s","e">>, <<"a","l","m","s","h","o","u","s","e">>>>,
    <<<<"o","r","p","h","a","n","a","g","e">>, <<"o","r","p","h","a","n"," ","a","s","y","l","u","m">>>>,
    <<<<"m","f","g">>, <<"m","a","n","u","f","a","c","t","u","r","i","n","g">>>>,
    <<<<"f","a","c">>, <<"f","a","c","t","o","r","y">>>>,
    <<<<"f","a","c","t">>, <<"f","a","c","t","o","r","y">>>>,
    <<<<"p","l","t">>, <<"p","l","a","n","t">>>>,
    <<<<"p","l","n","t">>, <<"p","l","a","n","t">>>>,
    <<<<"w","k","s">>, <<"w","o","r","k","s">>>>,
    <<<<"w","r","k","s">>, <<"w","o","r","k","s">>>>,
    <<<<"f","d","r","y">>, <<"f","o","u","n","d","r","y">>>>,
    <<<<"f","o","u","n","d","r","y">>, <<"f","o","u","n","d","r","y">>>>,
    <<<<"m","i","l","l">>, <<"m","i","l","l">>>>,
    <<<<"f","u","r","n">>, <<"f","u","r","n","a","c","e">>>>,
    <<<<"s","m","e","l","t">>, <<"s","m","e","l","t","e","r">>>>,
    <<<<"r","e","f">>, <<"r","e","f","i","n","e","r","y">>>>,
    <<<<"r","e","f","i","n">>, <<"r","e","f","i","n","e","r","y">>>>,
    <<<<"d","i","s","t","i","l","l">>, <<"d","i","s","t","i","l","l","e","r","y">>>>,
    <<<<"b","r","e","w">>, <<"b","r","e","w","e","r","y">>>>,
    <<<<"p","a","c","k","i","n","g">>, <<"p","a","c","k","i","n","g">>>>,
    <<<<"c","a","n","n","e","r","y">>, <<"c","a","n","n","i","n","g"," ","f","a","c","t","o","r","y">>>>,
    <<<<"t","e","x","t","i","l","e">>, <<"t","e","x","t","i","l","e">>>>,
    <<<<"c","o","t","t","o","n">>, <<"c","o","t","t","o","n">>>>,
    <<<<"w","o","o","l","e","n">>, <<"w","o","o","l","e","n">>>>,
    <<<<"p","a","p","e","r">>, <<"p","a","p","e","r">>>>,
    <<<<"l","u","m","b","e","r">>, <<"l","u","m","b","e","r">>>>,
    <<<<"s","a","w">>, <<"s","a","w","m","i","l","l">>>>,
    <<<<"s","a","w","m","i","l","l">>, <<"s","a","w","m","i","l","l">>>>,
    <<<<"g","r","a","i","n">>, <<"g","r","a","i","n">>>>,
    <<<<"e","l","e","v">>, <<"e","l","e","v","a","t","o","r">>>>,
    <<<<"w","a","r","e","h","o","u","s","e">>, <<"w","a","r","e","h","o","u","s","e">>>>,
    <<<<"w","h","s","e">>, <<"w","a","r","e","h","o","u","s","e">>>>,
    <<<<"d","e","p","o","t">>, <<"d","e","p","o","t">>>>,
    <<<<"m","i","n","e">>, <<"m","i","n","e">>>>,
    <<<<"c","o","l","l","i","e","r","y">>, <<"c","o","a","l"," ","m","i","n","e">>>>,
    <<<<"s","h","a","f","t">>, <<"s","h","a","f","t">>>>,
    <<<<"b","r","e","a","k","e","r">>, <<"b","r","e","a","k","e","r">>>>,
    <<<<"t","i","p","p","l","e">>, <<"t","i","p","p","l","e">>>>,
    <<<<"q","u","a","r","r","y">>, <<"q","u","a","r","r","y">>>>,
    <<<<"p","i","t">>, <<"p","i","t">>>>,
    <<<<"p","w","r">>, <<"p","o","w","e","r">>>>,
    <<<<"p","o","w","e","r">>, <<"p","o","w","e","r">>>>,
    <<<<"p","o","w","e","r","h","o","u","s","e">>, <<"p","o","w","e","r","h","o","u","s","e">>>>,
    <<<<"g","e","n">>, <<"g","e","n","e","r","a","t","i","n","g">>>>,
    <<<<"e","l","e","c">>, <<"e","l","e","c","t","r","i","c">>>>,
    <<<<"h","y","d","r","o">>, <<"h","y","d","r","o","e","l","e","c","t","r","i","c">>>>,
    <<<<"s","u","b">>, <<"s","u","b","s","t","a","t","i","o","n">>>>,
    <<<<"s","u","b","s","t","a">>, <<"s","u","b","s","t","a","t","i","o","n">>>>,
    <<<<"p","u","m","p">>, <<"p","u","m","p","i","n","g">>>>,
    <<<<"w","t","r">>, <<"w","a","t","e","r">>>>,
    <<<<"w","w","t","p">>, <<"s","e","w","a","g","e"," ","t","r","e","a","t","m","e","n","t">>>>,
    <<<<"s","e","w","a","g","e">>, <<"s","e","w","a","g","e">>>>,
    <<<<"g","a","s">>, <<"g","a","s">>>>,
    <<<<"c","h">>, <<"c","h","u","r","c","h">>>>,
    <<<<"c","h","u","r">>, <<"c","h","u","r","c","h">>>>,
    <<<<"c","a","t","h">>, <<"c","a","t","h","o","l","i","c">>>>,
    <<<<"m","e","t","h">>, <<"m","e","t","h","o","d","i","s","t">>>>,
    <<<<"p","r","e","s","b">>, <<"p","r","e","s","b","y","t","e","r","i","a","n">>>>,
    <<<<"b","a","p","t">>, <<"b","a","p","t","i","s","t">>>>,
    <<<<"l","u","t","h">>, <<"l","u","t","h","e","r","a","n">>>>,
    <<<<"e","p","i","s","c">>, <<"e","p","i","s","c","o","p","a","l">>>>,
    <<<<"c","o","n","g">>, <<"c","o","n","g","r","e","g","a","t","i","o","n","a","l">>>>,
    <<<<"s","y","n">>, <<"s","y","n","a","g","o","g","u","e">>>>,
    <<<<"c","e","m">>, <<"c","e","m","e","t","e","r","y">>>>,
    <<<<"c","e","m","y">>, <<"c","e","m","e","t","e","r","y">>>>,
    <<<<"m","e","m">>, <<"m","e","m","o","r","i","a","l">>>>,
    <<<<"c","h","a","p">>, <<"c","h","a","p","e","l">>>>,
    <<<<"p","a","r">>, <<"p","a","r","i","s","h">>>>,
    <<<<"d","e","p","t">>, <<"d","e","p","a","r","t","m","e","n","t">>>>,
    <<<<"s","t","o","r","e">>, <<"s","t","o","r","e">>>>,
    <<<<"h","t","l">>, <<"h","o","t","e","l">>>>,
    <<<<"h","o","t","e","l">>, <<"h","o","t","e","l">>>>,
    <<<<"i","n","n">>, <<"i","n","n">>>>,
    <<<<"t","h","t","r">>, <<"t","h","e","a","t","e","r">>>>,
    <<<<"t","h","e","a","t","e","r">>, <<"t","h","e","a","t","e","r">>>>,
    <<<<"t","h","e","a","t","r","e">>, <<"t","h","e","a","t","e","r">>>>,
    <<<<"o","p","e","r","a">>, <<"o","p","e","r","a">>>>,
    <<<<"h","a","l","l">>, <<"h","a","l","l">>>>,
    <<<<"a","u","d">>, <<"a","u","d","i","t","o","r","i","u","m">>>>,
    <<<<"l","i","b">>, <<"l","i","b","r","a","r","y">>>>,
    <<<<"m","u","s","e","u","m">>, <<"m","u","s","e","u","m">>>>,
    <<<<"m","u","s">>, <<"m","u","s","e","u","m">>>>,
    <<<<"c","t">>, <<"c","o","u","r","t">>>>,
    <<<<"c","r","t">>, <<"c","o","u","r","t">>>>,
    <<<<"c","o","u","r","t","h","o","u","s","e">>, <<"c","o","u","r","t","h","o","u","s","e">>>>,
    <<<<"j","a","i","l">>, <<"j","a","i","l">>>>,
    <<<<"p","r","i","s","o","n">>, <<"p","r","i","s","o","n">>>>,
    <<<<"p","e","n">>, <<"p","e","n","i","t","e","n","t","i","a","r","y">>>>,
    <<<<"a","r","m","o","r","y">>, <<"a","r","m","o","r","y">>>>,
    <<<<"p","o">>, <<"p","o","s","t"," ","o","f","f","i","c","e">>>>,
    <<<<"s","t","n">>, <<"s","t","a","t","i","o","n">>>>,
    <<<<"s","t","a">>, <<"s","t","a","t","i","o","n">>>>,
    <<<<"t","e","r","m">>, <<"t","e","r","m","i","n","a","l">>>>,
    <<<<"p","k">>, <<"p","a","r","k">>>>,
    <<<<"p","a","r","k">>, <<"p","a","r","k">>>>,
    <<<<"p","o","o","l">>, <<"p","o","o","l">>>>,
    <<<<"s","t","a","d","i","u","m">>, <<"s","t","a","d","i","u","m">>>>,
    <<<<"a","r","e","n","a">>, <<"a","r","e","n","a">>>>,
    <<<<"f","a","i","r","g","r","o","u","n","d","s">>, <<"f","a","i","r","g","r","o","u","n","d","s">>>>,
    <<<<"r","a","c","e">>, <<"r","a","c","e">>>>,
    <<<<"r","a","c","e","t","r","a","c","k">>, <<"r","a","c","e","t","r","a","c","k">>>>,
    <<<<"c","a","s","i","n","o">>, <<"c","a","s","i","n","o">>>>,
    <<<<"r","e","s","o","r","t">>, <<"r","e","s","o","r","t">>>>,
    <<<<"c","a","m","p">>, <<"c","a","m","p">>>>,
    <<<<"l","o","d","g","e">>, <<"l","o","d","g","e">>>>,
    <<<<"b","a","r","n">>, <<"b","a","r","n">>>>,
    <<<<"s","i","l","o">>, <<"s","i","l","o">>>>,
    <<<<"d","a","i","r","y">>, <<"d","a","i","r","y">>>>,
    <<<<"f","a","r","m">>, <<"f","a","r","m">>>>,
    <<<<"r","a","n","c","h">>, <<"r","a","n","c","h">>>>,
    <<<<"g","r","a","n","g","e">>, <<"g","r","a","n","g","e">>>>,
    <<<<"c","r","e","a","m","e","r","y">>, <<"c","r","e","a","m","e","r","y">>>>,
    <<<<"s","t","o","c","k","y","a","r","d">>, <<"s","t","o","c","k","y","a","r","d","s">>>>,
    <<<<"s","t","o","c","k","y","a","r","d","s">>, <<"s","t","o","c","k","y","a","r","d","s">>>>,
    <<<<"s","l","a","u","g","h","t","e","r">>, <<"s","l","a","u","g","h","t","e","r","h","o","u","s","e">>>>,
    <<<<"s","l","a","u","g","h","t","e","r","h","o","u","s","e">>, <<"s","l","a","u","g","h","t","e","r","h","o","u","s","e">>>>,
    <<<<"a","f","b">>, <<"a","i","r"," ","f","o","r","c","e"," ","b","a","s","e">>>>,
    <<<<"n","a","s">>, <<"n","a","v","a","l"," ","a","i","r"," ","s","t","a","t","i","o","n">>>>,
    <<<<"a","r","m","y">>, <<"a","r","m","y">>>>,
    <<<<"f","t">>, <<"f","o","r","t">>>>,
    <<<<"f","o","r","t">>, <<"f","o","r","t">>>>,
    <<<<"a","r","s","e","n","a","l">>, <<"a","r","s","e","n","a","l">>>>,
    <<<<"b","a","r","r","a","c","k","s">>, <<"b","a","r","r","a","c","k","s">>>>,
    <<<<"c","h","e","v","y">>, <<"c","h","e","v","r","o","l","e","t">>>>,
    <<<<"c","h","e","v">>, <<"c","h","e","v","r","o","l","e","t">>>>,
    <<<<"c","h","e","v","r","o","l","e","t">>, <<"c","h","e","v","r","o","l","e","t">>>>,
    <<<<"c","a","d">>, <<"c","a","d","i","l","l","a","c">>>>,
    <<<<"c","a","d","d","y">>, <<"c","a","d","i","l","l","a","c">>>>,
    <<<<"c","a","d","i","l","l","a","c">>, <<"c","a","d","i","l","l","a","c">>>>,
    <<<<"o","l","d","s">>, <<"o","l","d","s","m","o","b","i","l","e">>>>,
    <<<<"o","l","d","s","m","o","b","i","l","e">>, <<"o","l","d","s","m","o","b","i","l","e">>>>,
    <<<<"p","o","n","t">>, <<"p","o","n","t","i","a","c">>>>,
    <<<<"p","o","n","t","i","a","c">>, <<"p","o","n","t","i","a","c">>>>,
    <<<<"b","u","i","c","k">>, <<"b","u","i","c","k">>>>,
    <<<<"g","m","c">>, <<"g","e","n","e","r","a","l"," ","m","o","t","o","r","s"," ","t","r","u","c","k">>>>,
    <<<<"f","o","r","d">>, <<"f","o","r","d">>>>,
    <<<<"m","e","r","c">>, <<"m","e","r","c","u","r","y">>>>,
    <<<<"m","e","r","c","u","r","y">>, <<"m","e","r","c","u","r","y">>>>,
    <<<<"l","i","n","c">>, <<"l","i","n","c","o","l","n">>>>,
    <<<<"l","i","n","c","o","l","n">>, <<"l","i","n","c","o","l","n">>>>,
    <<<<"c","h","r","y","s">>, <<"c","h","r","y","s","l","e","r">>>>,
    <<<<"c","h","r","y","s","l","e","r">>, <<"c","h","r","y","s","l","e","r">>>>,
    <<<<"p","l","y","m">>, <<"p","l","y","m","o","u","t","h">>>>,
    <<<<"p","l","y","m","o","u","t","h">>, <<"p","l","y","m","o","u","t","h">>>>,
    <<<<"d","o","d","g","e">>, <<"d","o","d","g","e">>>>,
    <<<<"j","e","e","p">>, <<"j","e","e","p">>>>,
    <<<<"a","m","c">>, <<"a","m","e","r","i","c","a","n"," ","m","o","t","o","r","s">>>>,
    <<<<"s","t","u","d","e">>, <<"s","t","u","d","e","b","a","k","e","r">>>>,
    <<<<"s","t","u","d","e","b","a","k","e","r">>, <<"s","t","u","d","e","b","a","k","e","r">>>>,
    <<<<"p","a","c","k">>, <<"p","a","c","k","a","r","d">>>>,
    <<<<"p","a","c","k","a","r","d">>, <<"p","a","c","k","a","r","d">>>>,
    <<<<"h","u","d","s","o","n">>, <<"h","u","d","s","o","n">>>>,
    <<<<"n","a","s","h">>, <<"n","a","s","h">>>>,
    <<<<"k","a","i","s","e","r">>, <<"k","a","i","s","e","r">>>>,
    <<<<"w","i","l","l","y","s">>, <<"w","i","l","l","y","s">>>>,
    <<<<"g","e">>, <<"g","e","n","e","r","a","l"," ","e","l","e","c","t","r","i","c">>>>,
    <<<<"g","m">>, <<"g","e","n","e","r","a","l"," ","m","o","t","o","r","s">>>>,
    <<<<"r","c","a">>, <<"r","a","d","i","o"," ","c","o","r","p","o","r","a","t","i","o","n"," ","a","m","e","r","i","c","a">>>>,
    <<<<"i","b","m">>, <<"i","n","t","e","r","n","a","t","i","o","n","a","l"," ","b","u","s","i","n","e","s","s"," ","m","a","c","h","i","n","e","s">>>>,
    <<<<"a","t","t">>, <<"a","m","e","r","i","c","a","n"," ","t","e","l","e","p","h","o","n","e"," ","t","e","l","e","g","r","a","p","h">>>>,
    <<<<"a","t","&","t">>, <<"a","m","e","r","i","c","a","n"," ","t","e","l","e","p","h","o","n","e"," ","t","e","l","e","g","r","a","p","h">>>>,
    <<<<"b","e","l","l">>, <<"b","e","l","l"," ","t","e","l","e","p","h","o","n","e">>>>,
    <<<<"w","e","s","t","i","n","g","h","o","u","s","e">>, <<"w","e","s","t","i","n","g","h","o","u","s","e">>>>,
    <<<<"k","o","d","a","k">>, <<"e","a","s","t","m","a","n"," ","k","o","d","a","k">>>>,
    <<<<"d","u","p","o","n","t">>, <<"d","u","p","o","n","t">>>>,
    <<<<"d","o","w">>, <<"d","o","w"," ","c","h","e","m","i","c","a","l">>>>,
    <<<<"b","e","t","h","l","e","h","e","m">>, <<"b","e","t","h","l","e","h","e","m"," ","s","t","e","e","l">>>>,
    <<<<"a","l","c","o","a">>, <<"a","l","u","m","i","n","u","m"," ","c","o","m","p","a","n","y"," ","a","m","e","r","i","c","a">>>>,
    <<<<"g","o","o","d","y","e","a","r">>, <<"g","o","o","d","y","e","a","r">>>>,
    <<<<"f","i","r","e","s","t","o","n","e">>, <<"f","i","r","e","s","t","o","n","e">>>>,
    <<<<"b","f","g">>, <<"g","o","o","d","r","i","c","h">>>>,
    <<<<"c","h","a","m","p","i","o","n">>, <<"c","h","a","m","p","i","o","n">>>>,
    <<<<"d","e","l","c","o">>, <<"d","e","l","c","o">>>>,
    <<<<"f","i","s","h","e","r">>, <<"f","i","s","h","e","r">>>>,
    <<<<"r","r">>, <<"r","a","i","l","r","o","a","d">>>>,
    <<<<"r","y">>, <<"r","a","i","l","w","a","y">>>>,
    <<<<"r","w","y">>, <<"r","a","i","l","w","a","y">>>>,
    <<<<"r","r","d">>, <<"r","a","i","l","r","o","a","d">>>>,
    <<<<"p","e","n","n">>, <<"p","e","n","n","s","y","l","v","a","n","i","a"," ","r","a","i","l","r","o","a","d">>>>,
    <<<<"p","r","r">>, <<"p","e","n","n","s","y","l","v","a","n","i","a"," ","r","a","i","l","r","o","a","d">>>>,
    <<<<"n","y","c">>, <<"n","e","w"," ","y","o","r","k"," ","c","e","n","t","r","a","l">>>>,
    <<<<"b","&","o">>, <<"b","a","l","t","i","m","o","r","e"," ","o","h","i","o">>>>,
    <<<<"b","a","n","d","o">>, <<"b","a","l","t","i","m","o","r","e"," ","o","h","i","o">>>>,
    <<<<"e","r","i","e">>, <<"e","r","i","e">>>>,
    <<<<"l","a","c","k","a","w","a","n","n","a">>, <<"l","a","c","k","a","w","a","n","n","a">>>>,
    <<<<"l","e","h","i","g","h">>, <<"l","e","h","i","g","h">>>>,
    <<<<"r","e","a","d","i","n","g">>, <<"r","e","a","d","i","n","g">>>>,
    <<<<"s","o","u">>, <<"s","o","u","t","h","e","r","n">>>>,
    <<<<"s","o","u","t","h","e","r","n">>, <<"s","o","u","t","h","e","r","n">>>>,
    <<<<"n","p">>, <<"n","o","r","t","h","e","r","n"," ","p","a","c","i","f","i","c">>>>,
    <<<<"s","p">>, <<"s","o","u","t","h","e","r","n"," ","p","a","c","i","f","i","c">>>>,
    <<<<"u","p">>, <<"u","n","i","o","n"," ","p","a","c","i","f","i","c">>>>,
    <<<<"s","f">>, <<"s","a","n","t","a"," ","f","e">>>>,
    <<<<"a","t","s","f">>, <<"s","a","n","t","a"," ","f","e">>>>,
    <<<<"c","b","&","q">>, <<"b","u","r","l","i","n","g","t","o","n">>>>,
    <<<<"b","u","r","l","i","n","g","t","o","n">>, <<"b","u","r","l","i","n","g","t","o","n">>>>,
    <<<<"m","i","l","w">>, <<"m","i","l","w","a","u","k","e","e">>>>,
    <<<<"g","n">>, <<"g","r","e","a","t"," ","n","o","r","t","h","e","r","n">>>>,
    <<<<"c","p","r">>, <<"c","a","n","a","d","i","a","n"," ","p","a","c","i","f","i","c">>>>,
    <<<<"c","n","r">>, <<"c","a","n","a","d","i","a","n"," ","n","a","t","i","o","n","a","l">>>>,
    <<<<"n">>, <<"n","o","r","t","h">>>>,
    <<<<"n","o">>, <<"n","o","r","t","h">>>>,
    <<<<"s">>, <<"s","o","u","t","h">>>>,
    <<<<"s","o">>, <<"s","o","u","t","h">>>>,
    <<<<"e">>, <<"e","a","s","t">>>>,
    <<<<"w">>, <<"w","e","s","t">>>>,
    <<<<"n","e">>, <<"n","o","r","t","h","e","a","s","t">>>>,
    <<<<"n","w">>, <<"n","o","r","t","h","w","e","s","t">>>>,
    <<<<"s","e">>, <<"s","o","u","t","h","e","a","s","t">>>>,
    <<<<"s","w">>, <<"s","o","u","t","h","w","e","s","t">>>>,
    <<<<"b","r","o","s">>, <<"b","r","o","t","h","e","r","s">>>>,
    <<<<"c","o","r","p">>, <<"c","o","r","p","o","r","a","t","i","o","n">>>>,
    <<<<"i","n","c">>, <<"i","n","c","o","r","p","o","r","a","t","e","d">>>>,
    <<<<"c","o">>, <<"c","o","m","p","a","n","y">>>>,
    <<<<"l","t","d">>, <<"l","i","m","i","t","e","d">>>>,
    <<<<"a","s","s","n">>, <<"a","s","s","o","c","i","a","t","i","o","n">>>>,
    <<<<"a","s","s","o","c">>, <<"a","s","s","o","c","i","a","t","i","o","n">>>>,
    <<<<"b","l","d","g">>, <<"b","u","i","l","d","i","n","g">>>>,
    <<<<"h","q">>, <<"h","e","a","d","q","u","a","r","t","e","r","s">>>>,
    <<<<"d","i","v">>, <<"d","i","v","i","s","i","o","n">>>>,
    <<<<"n","a","t","l">>, <<"n","a","t","i","o","n","a","l">>>>,
    <<<<"n","a","t","'","l">>, <<"n","a","t","i","o","n","a","l">>>>,
    <<<<"i","n","t","l">>, <<"i","n","t","e","r","n","a","t","i","o","n","a","l">>>>,
    <<<<"i","n","t","'","l">>, <<"i","n","t","e","r","n","a","t","i","o","n","a","l">>>>,
    <<<<"a","m","e","r">>, <<"a","m","e","r","i","c","a","n">>>>,
    <<<<"a","m">>, <<"a","m","e","r","i","c","a","n">>>>,
    <<<<"m","t">>, <<"m","o","u","n","t">>>>,
    <<<<"m","t","n">>, <<"m","o","u","n","t","a","i","n">>>>,
    <<<<"l","k">>, <<"l","a","k","e">>>>,
    <<<<"r","i","v">>, <<"r","i","v","e","r">>>>,
    <<<<"r","v","r">>, <<"r","i","v","e","r">>>>,
    <<<<"c","k">>, <<"c","r","e","e","k">>>>,
    <<<<"c","r","k">>, <<"c","r","e","e","k">>>>,
    <<<<"s","p","g">>, <<"s","p","r","i","n","g","s">>>>,
    <<<<"s","p","g","s">>, <<"s","p","r","i","n","g","s">>>>,
    <<<<"f","l","s">>, <<"f","a","l","l","s">>>>,
    <<<<"f","a","l","l","s">>, <<"f","a","l","l","s">>>>,
    <<<<"h","t","s">>, <<"h","e","i","g","h","t","s">>>>,
    <<<<"j","c","t">>, <<"j","u","n","c","t","i","o","n">>>>,
    <<<<"j","u","n","c">>, <<"j","u","n","c","t","i","o","n">>>>,
    <<<<"x","i","n","g">>, <<"c","r","o","s","s","i","n","g">>>>,
    <<<<"p","t">>, <<"p","o","i","n","t">>>>,
    <<<<"h","b","r">>, <<"h","a","r","b","o","r">>>>,
    <<<<"c","t","y">>, <<"c","o","u","n","t","y">>>>,
    <<<<"t","w","p">>, <<"t","o","w","n","s","h","i","p">>>>,
    <<<<"b","o","r","o">>, <<"b","o","r","o","u","g","h">>>>,
    <<<<"v","l","g">>, <<"v","i","l","l","a","g","e">>>>,
    <<<<"a","v","e">>, <<"a","v","e","n","u","e">>>>,
    <<<<"b","l","v","d">>, <<"b","o","u","l","e","v","a","r","d">>>>,
    <<<<"r","d">>, <<"r","o","a","d">>>>,
    <<<<"d","r">>, <<"d","r","i","v","e">>>>,
    <<<<"l","n">>, <<"l","a","n","e">>>>,
    <<<<"p","l">>, <<"p","l","a","c","e">>>>,
    <<<<"c","i","r">>, <<"c","i","r","c","l","e">>>>,
    <<<<"h","w","y">>, <<"h","i","g","h","w","a","y">>>>,
    <<<<"p","k","w","y">>, <<"p","a","r","k","w","a","y">>>>,
    <<<<"t","p","k","e">>, <<"t","u","r","n","p","i","k","e">>>>
  >>

\* [abbreviation, replacement] of each pattern /\\b<abbreviation>\\.\\s*/gi
PERIOD_ABBREVIATIONS ==
  <<
    <<<<"s","t">>, <<"s","a","i","n","t"," ">>>>,
    <<<<"m","t">>, <<"m","o","u","n","t"," ">>>>,
    <<<<"h","o","s","p">>, <<"h","o","s","p","i","t","a","l"," ">>>>,
    <<<<"m","f","g">>, <<"m","a","n","u","f","a","c","t","u","r","i","n","g"," ">>>>,
    <<<<"c","o">>, <<"c","o","m","p","a","n","y"," ">>>>,
    <<<<"c","o","r","p">>, <<"c","o","r","p","o","r","a","t","i","o","n"," ">>>>,
    <<<<"i","n","c">>, <<"i","n","c","o","r","p","o","r","a","t","e","d"," ">>>>,
    <<<<"a","v","e">>, <<"a","v","e","n","u","e"," ">>>>,
    <<<<"b","l","v","d">>, <<"b","o","u","l","e","v","a","r","d"," ">>>>,
    <<<<"r","d">>, <<"r","o","a","d"," ">>>>,
    <<<<"b","r","o","s">>, <<"b","r","o","t","h","e","r","s"," ">>>>,
    <<<<"d","e","p","t">>, <<"d","e","p","a","r","t","m","e","n","t"," ">>>>,
    <<<<"d","r">>, <<"d","o","c","t","o","r"," ">>>>,
    <<<<"j","r">>, <<"j","u","n","i","o","r"," ">>>>,
    <<<<"s","r">>, <<"s","e","n","i","o","r"," ">>>>
  >>

(***************************************************************************)
(* jaro-winkler.ts: name normalization and word-overlap boost              *)
(***************************************************************************)

\* String.prototype.replace with a global regular expression: MatchLen(i)
\* is the length of the match that starts at position i of s, 0 for none
replaceAll(s, MatchLen(_), replacement) ==
  LET F[i \in 1..(Len(s) + 1)] ==
        IF i > Len(s) THEN <<>>
        ELSE IF MatchLen(i) > 0 THEN replacement \o F[i + MatchLen(i)]
        ELSE <<s[i]>> \o F[i + 1]
  IN F[1]

\* normalized.replace(/^(the|a|an)\s+/i, '')
stripLeadingArticle(s) ==
  LET articles == <<<<"t","h","e">>, <<"a">>, <<"a","n">>>>
      hits == {k \in 1..Len(articles) :
                 /\ MatchesAt(s, articles[k], 1)
                 /\ Len(s) > Len(articles[k])
                 /\ IsSpace(s[Len(articles[k]) + 1])}
      k0 == CHOOSE k \in hits : \A j \in hits : k <= j
  IN IF hits = {} THEN s
     ELSE SubSeq(s, RunEnd(s, Len(articles[k0]) + 1, IsSpace), Len(s))

\* one pass of the PERIOD_ABBREVIATIONS loop
expandPeriodAbbreviation(s, entry) ==
  LET pat == entry[1] \o <<".">>
      MatchLen(i) ==
        IF WordBoundary(s, i) /\ MatchesAt(s, pat, i)
          THEN RunEnd(s, i + Len(pat), IsSpace) - i
          ELSE 0
  IN replaceAll(s, MatchLen, entry[2])

\* [...MULTI_WORD_ALIASES].sort((a, b) => b[0].length - a[0].length)
sortedMultiWord ==
  LET Sorted(table) ==
        LET n == Len(table)
            PatLen(i) == Len(table[i][1])
            \* the sort is stable: longer patterns first, equal lengths in
            \* table order
            Rank(i) == Cardinality({j \in 1..n : PatLen(j) > PatLen(i)})
                       + Cardinality({j \in 1..i : PatLen(j) = PatLen(i)})
        IN [r \in 1..n |-> table[CHOOSE i \in 1..n : Rank(i) = r]]
  IN Bind(MULTI_WORD_ALIASES, Sorted)

\* one pass of the multi-word loop: replace(/\b<pattern>\b/gi, replacement)
expandMultiWord(s, entry) ==
  LET pat == entry[1]
      MatchLen(i) ==
        IF /\ WordBoundary(s, i)
           /\ MatchesAt(s, pat, i)
           /\ WordBoundary(s, i + Len(pat))
          THEN Len(pat)
          ELSE 0
  IN replaceAll(s, MatchLen, entry[2])

\* the callback of words.map in normalizeName
expandWord(word) ==
  LET punct == {".", ",", ";", ":", "!", "?"}
      cleanWord == IF Len(word) > 0 /\ word[Len(word)] \in punct
                     THEN SubSeq(word, 1, Len(word) - 1)
                     ELSE word
      suffix == SubSeq(word, Len(cleanWord) + 1, Len(word))
      \* SINGLE_WORD_ALIASES.get(cleanWord)
      Get(table) ==
        LET hits == {k \in 1..Len(table) : table[k][1] = cleanWord}
        IN IF hits = {} THEN word
           ELSE table[CHOOSE k \in hits : TRUE][2] \o suffix
  IN Bind(SINGLE_WORD_ALIASES, Get)

\* the passes lo..hi of a replacement loop over a table, in table order;
\* each pass works on the value the passes before it produced
RECURSIVE applyPasses(_, _, _, _, _)
applyPasses(s, table, Pass(_, _), lo, hi) ==
  IF lo > hi THEN s
  ELSE IF lo = hi THEN CHOOSE r \in {Pass(v, table[lo]) : v \in {s}} : TRUE
  ELSE LET mid == (lo + hi) \div 2
       IN CHOOSE r \in {applyPasses(v, table, Pass, mid + 1, hi) :
                          v \in {applyPasses(s, table, Pass, lo, mid)}} : TRUE

\* a whole replacement loop: for (const entry of table) s = Pass(s, entry)
applyAll(s, table, Pass(_, _)) == applyPasses(s, table, Pass, 1, Len(table))

normalizeName(name) ==
  LET lowered == trim(toLowerCase(name))
      stripped == stripLeadingArticle(lowered)
      afterPeriod == applyAll(stripped, PERIOD_ABBREVIATIONS,
                              expandPeriodAbbreviation)
      afterMulti == applyAll(afterPeriod, sortedMultiWord, expandMultiWord)
      ExpandWords(words) == [k \in 1..Len(words) |-> expandWord(words[k])]
      joined == joinSpaces(Bind(splitSpaces(afterMulti), ExpandWords))
      collapsed == joinSpaces(SelectSeq(splitSpaces(joined), LAMBDA t : Len(t) > 0))
  IN IF Len(name) = 0 THEN <<>> ELSE collapsed

calculateWordOverlap(name1, name2) ==
  LET Words(pieces) == {w \in {pieces[k] : k \in 1..Len(pieces)} : Len(w) >= 2}
      words1 == Bind(splitSpaces(name1), Words)
      words2 == Bind(splitSpaces(name2), Words)
      exactMatches == words1 \cap words2
      totalUniqueWords == Cardinality(words1 \cup words2)
  IN IF Len(name1) = 0 \/ Len(name2) = 0
       THEN [exactMatches |-> {}, totalUniqueWords |-> 0, shouldBoost |-> FALSE]
       ELSE [exactMatches |-> exactMatches,
             totalUniqueWords |-> totalUniqueWords,
             shouldBoost |-> /\ Cardinality(exactMatches) >= 1
                             /\ totalUniqueWords > 0
                             /\ 4 * Cardinality(exactMatches) >= totalUniqueWords]

getAdjustedThreshold(name1, name2, baseThreshold) ==
  LET overlap == calculateWordOverlap(normalizeName(name1), normalizeName(name2))
  IN IF overlap.shouldBoost
       THEN Max(baseThreshold - WORD_OVERLAP_BOOST, MIN_BOOSTED_THRESHOLD)
       ELSE baseThreshold

normalizedSimilarity(name1, name2) ==
  jaroWinklerSimilarity(normalizeName(name1), normalizeName(name2))

(***************************************************************************)
(* geo-utils.ts                                                            *)
(***************************************************************************)

\* haversineDistance for two points on one meridian (lng1 = lng2), with
\* latitudes given in metres of arc: a = sin^2(dLat/2), c = |dLat| and the
\* distance R * c is the difference of the two latitudes
haversineDistance(lat1, lng1, lat2, lng2) ==
  IF lat1 >= lat2 THEN lat1 - lat2 ELSE lat2 - lat1

(***************************************************************************)
(* dedup.ts: configuration                                                 *)
(***************************************************************************)

DEFAULT_DEDUP_CONFIG ==
  [gpsThreshold |-> 50,
   nameThreshold |-> NAME_SIMILARITY_THRESHOLD,
   genericGpsThreshold |-> 25,
   requireGps |-> FALSE,
   useSmartMatch |-> TRUE,
   maxClusterSize |-> 20,
   maxClusterDiameter |-> 500,
   minConfidence |-> 60]

(***************************************************************************)
(* Inputs of the model                                                     *)
(***************************************************************************)

\* the value null of a point's name
Null == <<"null">>

Factory == <<"F","a","c","t","o","r","y">>

NorthFactory == <<"N","o","r","t","h"," ","F","a","c","t","o","r","y">>

SouthFactory == <<"S","o","u","t","h"," ","F","a","c","t","o","r","y">>

UnionStation == <<"U","n","i","o","n"," ","S","t","a","t","i","o","n">>

UnionDepot == <<"U","n","i","o","n"," ","D","e","p","o","t">>

UnionStn == <<"U","n","i","o","n"," ","S","t","n",".">>

\* the names a point can have
Names == {Null, Factory, NorthFactory, SouthFactory, UnionStation, UnionDepot, UnionStn}

\* point.name || ''
NameOrEmpty(name) == IF name = Null THEN <<>> ELSE name

\* the strings checkDuplicate works on
NameStrings == {NameOrEmpty(name) : name \in Names}

\* the positions a point can have, in metres north of a reference point
Positions == {0, 1, 20, 45, 600}

Point(name, lat) == [name |-> name, lat |-> lat, lng |-> 0]

\* the records a batch given to findDuplicateGroups is made of
Records ==
  {Point(NorthFactory, 0), Point(SouthFactory, 0), Point(Factory, 0),
   Point(Factory, 45), Point(Factory, 600), Point(UnionStation, 20),
   Point(UnionDepot, 45), Point(Null, 1), Point(Null, 45), Point(<<>>, 0)}

\* the largest batch
MaxPoints == 3

\* the configurations findDuplicateGroups is called with: the default, the
\* default with one field changed, and configurations that are out of range
Configs ==
  {DEFAULT_DEDUP_CONFIG,
   [DEFAULT_DEDUP_CONFIG EXCEPT !.useSmartMatch = FALSE],
   [DEFAULT_DEDUP_CONFIG EXCEPT !.requireGps = TRUE],
   [DEFAULT_DEDUP_CONFIG EXCEPT !.nameThreshold = 700],
   [DEFAULT_DEDUP_CONFIG EXCEPT !.maxClusterSize = 2],
   [DEFAULT_DEDUP_CONFIG EXCEPT !.maxClusterDiameter = 40],
   [DEFAULT_DEDUP_CONFIG EXCEPT !.minConfidence = 80],
   [DEFAULT_DEDUP_CONFIG EXCEPT !.gpsThreshold = -1],
   [DEFAULT_DEDUP_CONFIG EXCEPT !.nameThreshold = 1500],
   [DEFAULT_DEDUP_CONFIG EXCEPT !.maxClusterSize = 0],
   [DEFAULT_DEDUP_CONFIG EXCEPT !.maxClusterDiameter = -1],
   [DEFAULT_DEDUP_CONFIG EXCEPT !.minConfidence = 101]}

\* the points and configurations checkDuplicate is called with
PairPoints == {Point(name, lat) : name \in Names, lat \in Positions}

NorthMill == <<"N","o","r","t","h"," ","M","i","l","l">>

SouthMill == <<"S","o","u","t","h"," ","M","i","l","l">>

OldMill == <<"O","l","d"," ","M","i","l","l">>

NewMill == <<"N","e","w"," ","M","i","l","l">>

NorthOldMill == <<"N","o","r","t","h"," ","O","l","d"," ","M","i","l","l">>

SouthNewMill == <<"S","o","u","t","h"," ","N","e","w"," ","M","i","l","l">>

NorthNewMill == <<"N","o","r","t","h"," ","N","e","w"," ","M","i","l","l">>

FirstMill == <<"1","s","t"," ","M","i","l","l">>

SecondMill == <<"2","n","d"," ","M","i","l","l">>

UnitOne == <<"U","n","i","t"," ","1">>

UnitTwo == <<"U","n","i","t"," ","2">>

WardOne == <<"W","a","r","d"," ","1">>

Mill == <<"M","i","l","l">>

MillNY == <<"M","i","l","l"," ","N","Y">>

QuarryNY == <<"Q","u","a","r","r","y"," ","N","Y">>

OldNewMill == <<"O","l","d"," ","N","e","w"," ","M","i","l","l">>

\* the names the functions on names are called with: names with words of
\* each blocking category, generic names, names with a region word, names
\* that differ by an abbreviation, a name with two words of one blocking
\* category, and the empty name
SampleNames ==
  {NorthMill, SouthMill, OldMill, NewMill, NorthOldMill, SouthNewMill,
   NorthNewMill, FirstMill, SecondMill, UnitOne, UnitTwo, WardOne, Mill,
   MillNY, QuarryNY, OldNewMill, UnionStation, UnionStn, <<>>}

\* the two records whose names the functions on names are called with
NamePoints == {Point(name, 0) : name \in SampleNames}

\* the values of baseThreshold getAdjustedThreshold is called with
BaseThresholds == {600, 750, 850}

PairConfigs ==
  {[DEFAULT_DEDUP_CONFIG EXCEPT !.gpsThreshold = g, !.nameThreshold = t,
                                !.requireGps = r, !.useSmartMatch = u] :
     g \in {10, 50}, t \in {700, 850, 930}, r \in BOOLEAN, u \in BOOLEAN}

(***************************************************************************)
(* dedup.ts: checkDuplicate                                                *)
(***************************************************************************)

\* the name scores of every pair of name strings, tabulated once
\* (f @@ <<>> is f, stored as an explicit table)
NameScores ==
  <<>> @@
  [p \in NameStrings \X NameStrings |->
     [normalizedSimilarity |-> normalizedSimilarity(p[1], p[2]),
      jaroWinklerSimilarity |-> jaroWinklerSimilarity(p[1], p[2]),
      tokenSetRatio |-> tokenSetRatio(p[1], p[2]),
      blocking |-> checkBlockingConflict(p[1], p[2]),
      boosted |-> calculateWordOverlap(normalizeName(p[1]),
                                       normalizeName(p[2])).shouldBoost]]

\* whether each name string is generic, tabulated once
GenericNames == <<>> @@ [s \in NameStrings |-> isGenericName(s)]

\* a variant of Verdict: the name-and-GPS rule is tried before the blocking
\* veto
VerdictVetoSecond(hasConflict, gpsMatch, nameMatch, isGeneric, gpsDistance, bothEmpty, combinedNameScore, cfg) ==
  IF gpsMatch /\ nameMatch THEN [matchType |-> "both", confidence |-> 95]
  ELSE IF hasConflict THEN [matchType |-> "none", confidence |-> 0]
  ELSE IF gpsMatch /\ isGeneric /\ gpsDistance <= cfg.genericGpsThreshold
    THEN [matchType |-> "gps", confidence |-> 70]
  ELSE IF gpsMatch /\ bothEmpty THEN [matchType |-> "gps", confidence |-> 60]
  ELSE IF nameMatch /\ ~cfg.requireGps
    THEN IF AtLeast(combinedNameScore, 950)
           THEN [matchType |-> "name", confidence |-> 80]
         ELSE IF AtLeast(combinedNameScore, 900)
           THEN [matchType |-> "name", confidence |-> 65]
         ELSE [matchType |-> "none", confidence |-> 0]
  ELSE IF gpsMatch /\ AtLeast(combinedNameScore, 700)
    THEN [matchType |-> "both", confidence |-> 75]
  ELSE [matchType |-> "none", confidence |-> 0]

\* a variant of Verdict: the both-unnamed rule is tried before the generic
\* rule
VerdictUnnamedFirst(hasConflict, gpsMatch, nameMatch, isGeneric, gpsDistance, bothEmpty, combinedNameScore, cfg) ==
  IF hasConflict THEN [matchType |-> "none", confidence |-> 0]
  ELSE IF gpsMatch /\ nameMatch THEN [matchType |-> "both", confidence |-> 95]
  ELSE IF gpsMatch /\ bothEmpty THEN [matchType |-> "gps", confidence |-> 60]
  ELSE IF gpsMatch /\ isGeneric /\ gpsDistance <= cfg.genericGpsThreshold
    THEN [matchType |-> "gps", confidence |-> 70]
  ELSE IF nameMatch /\ ~cfg.requireGps
    THEN IF AtLeast(combinedNameScore, 950)
           THEN [matchType |-> "name", confidence |-> 80]
         ELSE IF AtLeast(combinedNameScore, 900)
           THEN [matchType |-> "name", confidence |-> 65]
         ELSE [matchType |-> "none", confidence |-> 0]
  ELSE IF gpsMatch /\ AtLeast(combinedNameScore, 700)
    THEN [matchType |-> "both", confidence |-> 75]
  ELSE [matchType |-> "none", confidence |-> 0]

\* a variant of Verdict without the both-unnamed rule
VerdictWithoutUnnamedRule(hasConflict, gpsMatch, nameMatch, isGeneric, gpsDistance, bothEmpty, combinedNameScore, cfg) ==
  IF hasConflict THEN [matchType |-> "none", confidence |-> 0]
  ELSE IF gpsMatch /\ nameMatch THEN [matchType |-> "both", confidence |-> 95]
  ELSE IF gpsMatch /\ isGeneric /\ gpsDistance <= cfg.genericGpsThreshold
    THEN [matchType |-> "gps", confidence |-> 70]
  ELSE IF nameMatch /\ ~cfg.requireGps
    THEN IF AtLeast(combinedNameScore, 950)
           THEN [matchType |-> "name", confidence |-> 80]
         ELSE IF AtLeast(combinedNameScore, 900)
           THEN [matchType |-> "name", confidence |-> 65]
         ELSE [matchType |-> "none", confidence |-> 0]
  ELSE IF gpsMatch /\ AtLeast(combinedNameScore, 700)
    THEN [matchType |-> "both", confidence |-> 75]
  ELSE [matchType |-> "none", confidence |-> 0]

\* lines 188-220 of checkDuplicate: match type and confidence
Verdict(hasConflict, gpsMatch, nameMatch, isGeneric, gpsDistance, bothEmpty, combinedNameScore, cfg) ==
  IF hasConflict THEN [matchType |-> "none", confidence |-> 0]
  ELSE IF gpsMatch /\ nameMatch THEN [matchType |-> "both", confidence |-> 95]
  ELSE IF gpsMatch /\ isGeneric /\ gpsDistance <= cfg.genericGpsThreshold
    THEN [matchType |-> "gps", confidence |-> 70]
  ELSE IF gpsMatch /\ bothEmpty THEN [matchType |-> "gps", confidence |-> 60]
  ELSE IF nameMatch /\ ~cfg.requireGps
    THEN IF AtLeast(combinedNameScore, 950)
           THEN [matchType |-> "name", confidence |-> 80]
         ELSE IF AtLeast(combinedNameScore, 900)
           THEN [matchType |-> "name", confidence |-> 65]
         ELSE [matchType |-> "none", confidence |-> 0]
  ELSE IF gpsMatch /\ AtLeast(combinedNameScore, 700)
    THEN [matchType |-> "both", confidence |-> 75]
  ELSE [matchType |-> "none", confidence |-> 0]

checkDuplicate(point1, point2, cfg) ==
  LET gpsDistance == haversineDistance(point1.lat, point1.lng,
                                       point2.lat, point2.lng)
      gpsMatch == gpsDistance <= cfg.gpsThreshold
      name1 == NameOrEmpty(point1.name)
      name2 == NameOrEmpty(point2.name)
      Scored(scores, isGeneric) ==
        LET nameSimilarity ==
              IF Len(name1) > 0 /\ Len(name2) > 0
                THEN IF cfg.useSmartMatch THEN scores.normalizedSimilarity
                     ELSE scores.jaroWinklerSimilarity
                ELSE Zero
            tsr == IF Len(name1) > 0 /\ Len(name2) > 0 THEN scores.tokenSetRatio
                   ELSE Zero
            combinedNameScore == RatMax(nameSimilarity, tsr)
            nameMatch == AtLeast(combinedNameScore, cfg.nameThreshold)
            blocking == scores.blocking
            verdict == Verdict(blocking.hasConflict, gpsMatch, nameMatch,
                               isGeneric, gpsDistance,
                               Len(name1) = 0 /\ Len(name2) = 0,
                               combinedNameScore, cfg)
        IN [index1 |-> 0,
            index2 |-> 0,
            gpsDistance |-> gpsDistance,
            nameSimilarity |-> nameSimilarity,
            tokenSetRatio |-> tsr,
            blockingConflict |-> blocking.hasConflict,
            isGeneric |-> isGeneric,
            matchType |-> verdict.matchType,
            confidence |-> verdict.confidence]
  IN \* the scores of the two names are looked up once
     CHOOSE r \in {Scored(s, g) :
                     s \in {NameScores[<<name1, name2>>]},
                     g \in {GenericNames[name1] \/ GenericNames[name2]}} : TRUE

(***************************************************************************)
(* cli.ts: the match command                                               *)
(***************************************************************************)

\* lines 625-695 of createMatchCommand: the body of the inner loop for one
\* target and one reference point, up to the minimum confidence filter.
\* The value holds the match type and confidence the pair is given and
\* whether the iteration went on past the two 'continue' statements; the
\* score that ranks the kept pairs of one target is left out
matchPair(target, ref, options) ==
  LET gps == haversineDistance(target.lat, target.lng, ref.lat, ref.lng)
      targetName == NameOrEmpty(target.name)
      refName == NameOrEmpty(ref.name)
      Judged(scores, targetGeneric, refGeneric) ==
        LET combinedNameScore == RatMax(scores.normalizedSimilarity,
                                        scores.tokenSetRatio)
            bothGeneric == targetGeneric /\ refGeneric
            gpsMatch == gps <= options.gpsThreshold
            nameMatch == AtLeast(combinedNameScore, options.nameThreshold)
            verdict ==
              IF options.requireBoth
                THEN IF gpsMatch /\ nameMatch
                       THEN [matchType |-> "both", confidence |-> 95]
                     ELSE [matchType |-> "none", confidence |-> 0]
              ELSE IF gpsMatch /\ nameMatch
                THEN [matchType |-> "both", confidence |-> 95]
              ELSE IF gpsMatch /\ AtLeast(combinedNameScore, 700)
                THEN [matchType |-> "both", confidence |-> 75]
              ELSE IF gpsMatch /\ bothGeneric /\ gps <= 25
                THEN [matchType |-> "gps", confidence |-> 60]
              ELSE IF nameMatch /\ AtLeast(combinedNameScore, 950)
                THEN [matchType |-> "name", confidence |-> 80]
              ELSE IF nameMatch /\ ~targetGeneric /\ ~refGeneric
                THEN [matchType |-> "name", confidence |-> 65]
              ELSE [matchType |-> "none", confidence |-> 0]
        IN IF scores.blocking.hasConflict
             THEN [matchType |-> "none", confidence |-> 0, kept |-> FALSE]
           ELSE [matchType |-> verdict.matchType,
                 confidence |-> verdict.confidence,
                 kept |-> verdict.confidence >= options.minConfidence]
  IN CHOOSE r \in {Judged(s, tg, rg) :
                     s \in {NameScores[<<targetName, refName>>]},
                     tg \in {GenericNames[targetName]},
                     rg \in {GenericNames[refName]}} : TRUE

(***************************************************************************)
(* dedup.ts: UnionFind                                                     *)
(* A UnionFind is a record [parent, rank, size] of arrays indexed 0..n-1.  *)
(***************************************************************************)

\* new UnionFind(n)
NewUnionFind(n) ==
  [parent |-> [i \in 0..(n - 1) |-> i],
   rank |-> [i \in 0..(n - 1) |-> 0],
   size |-> [i \in 0..(n - 1) |-> 1]]

\* the value find(x) returns: the end of the parent chain of x
RECURSIVE findRoot(_, _)
findRoot(parent, x) ==
  IF parent[x] # x THEN findRoot(parent, parent[x]) ELSE x

\* the nodes find(x) visits, whose parent it sets to the root
RECURSIVE findPath(_, _)
findPath(parent, x) ==
  IF parent[x] # x THEN {x} \cup findPath(parent, parent[x]) ELSE {}

\* a variant of find whose path compression writes x itself in place of
\* the root
findDetaching(self, x) ==
  LET root == findRoot(self.parent, x)
      path == findPath(self.parent, x)
  IN [root |-> root,
      uf |-> [self EXCEPT !.parent =
                [i \in DOMAIN self.parent |->
                   IF i \in path THEN i ELSE self.parent[i]]]]

\* find(x): the root, and the structure after path compression
find(self, x) ==
  LET root == findRoot(self.parent, x)
      path == findPath(self.parent, x)
  IN [root |-> root,
      uf |-> [self EXCEPT !.parent =
                [i \in DOMAIN self.parent |->
                   IF i \in path THEN root ELSE self.parent[i]]]]

\* union(x, y): the value returned, and the structure afterwards
union(self, x, y) ==
  LET fx == find(self, x)
      fy == find(fx.uf, y)
      rootX == fx.root
      rootY == fy.root
      u == fy.uf
  IN IF rootX = rootY THEN [merged |-> FALSE, uf |-> u]
     ELSE IF u.rank[rootX] < u.rank[rootY]
       THEN [merged |-> TRUE,
             uf |-> [u EXCEPT !.parent[rootX] = rootY,
                              !.size[rootY] = u.size[rootY] + u.size[rootX]]]
     ELSE IF u.rank[rootX] > u.rank[rootY]
       THEN [merged |-> TRUE,
             uf |-> [u EXCEPT !.parent[rootY] = rootX,
                              !.size[rootX] = u.size[rootX] + u.size[rootY]]]
     ELSE [merged |-> TRUE,
           uf |-> [u EXCEPT !.parent[rootY] = rootX,
                            !.size[rootX] = u.size[rootX] + u.size[rootY],
                            !.rank[rootX] = u.rank[rootX] + 1]]

\* getClusterSize(x)
getClusterSize(self, x) == find(self, x).uf.size[find(self, x).root]

\* a variant of getClusters whose loop starts at index 1
getClustersFromOne(self) ==
  LET n == Cardinality(DOMAIN self.parent)
      F[k \in 1..n] ==
        IF k = 1 THEN [clusters |-> <<>>, uf |-> self]
        ELSE LET prev == F[k - 1]
                 i == k - 1
                 f == find(prev.uf, i)
                 hits == {c \in 1..Len(prev.clusters) :
                            prev.clusters[c].root = f.root}
                 c0 == CHOOSE c \in hits : TRUE
             IN IF hits = {}
                  THEN [clusters |-> Append(prev.clusters,
                                            [root |-> f.root, members |-> <<i>>]),
                        uf |-> f.uf]
                  ELSE [clusters |->
                          [prev.clusters EXCEPT ![c0].members =
                             Append(prev.clusters[c0].members, i)],
                        uf |-> f.uf]
  IN F[n]

\* getClusters(): the entries [root, members] of the returned Map in
\* insertion order, and the structure after the finds
getClusters(self) ==
  LET n == Cardinality(DOMAIN self.parent)
      F[k \in 0..n] ==
        IF k = 0 THEN [clusters |-> <<>>, uf |-> self]
        ELSE LET prev == F[k - 1]
                 i == k - 1
                 f == find(prev.uf, i)
                 hits == {c \in 1..Len(prev.clusters) :
                            prev.clusters[c].root = f.root}
                 c0 == CHOOSE c \in hits : TRUE
             IN IF hits = {}
                  THEN [clusters |-> Append(prev.clusters,
                                            [root |-> f.root, members |-> <<i>>]),
                        uf |-> f.uf]
                  ELSE [clusters |->
                          [prev.clusters EXCEPT ![c0].members =
                             Append(prev.clusters[c0].members, i)],
                        uf |-> f.uf]
  IN F[n]

(***************************************************************************)
(* dedup.ts: findDuplicateGroups                                           *)
(***************************************************************************)

\* a variant of calculateClusterDiameter whose comparison is reversed, so
\* that maxDistance stays at its initial 0
calculateClusterDiameterReversed(pts, indices) == 0

\* calculateClusterDiameter(points, indices), indices given as a set
calculateClusterDiameter(pts, indices) ==
  LET dists == {haversineDistance(pts[i].lat, pts[i].lng, pts[j].lat, pts[j].lng) :
                  i \in indices, j \in indices}
  IN IF Cardinality(indices) <= 1 THEN 0
     ELSE CHOOSE d \in dists : \A e \in dists : d >= e

\* the pairs (i, j), i < j < n, in the order of the two nested loops
PairsInOrder(n) ==
  LET pairs == {p \in (0..(n - 1)) \X (0..(n - 1)) : p[1] < p[2]}
      Before(p, q) == p[1] < q[1] \/ (p[1] = q[1] /\ p[2] < q[2])
      Rank(p) == Cardinality({q \in pairs : Before(q, p)}) + 1
  IN [r \in 1..Cardinality(pairs) |-> CHOOSE p \in pairs : Rank(p) = r]

\* a variant of collectPotentialMatches that keeps every evaluated pair
collectPotentialMatchesUnfiltered(pts, cfg) ==
  LET n == Cardinality(DOMAIN pts)
      order == PairsInOrder(n)
  IN [r \in 1..Len(order) |->
        [checkDuplicate(pts[order[r][1]], pts[order[r][2]], cfg)
           EXCEPT !.index1 = order[r][1], !.index2 = order[r][2]]]

\* lines 311-321: the retained results in the order of the two loops
collectPotentialMatches(pts, cfg) ==
  LET n == Cardinality(DOMAIN pts)
      order == PairsInOrder(n)
      results == [r \in 1..Len(order) |->
                    [checkDuplicate(pts[order[r][1]], pts[order[r][2]], cfg)
                       EXCEPT !.index1 = order[r][1], !.index2 = order[r][2]]]
  IN SelectSeq(results,
               LAMBDA m : m.matchType # "none" /\ m.confidence >= cfg.minConfidence)

\* a variant of sortByConfidence with the comparator a.confidence -
\* b.confidence
sortByConfidenceAscending(list) ==
  LET Insert(sorted, m) ==
        LET before == SelectSeq(sorted, LAMBDA u : u.confidence <= m.confidence)
            after == SelectSeq(sorted, LAMBDA u : u.confidence > m.confidence)
        IN before \o <<m>> \o after
      F[k \in 0..Len(list)] ==
        IF k = 0 THEN <<>> ELSE Insert(F[k - 1], list[k])
  IN F[Len(list)]

\* potentialMatches.sort((a, b) => b.confidence - a.confidence); the sort
\* of Array.prototype.sort is stable
sortByConfidence(list) ==
  LET Insert(sorted, m) ==
        LET before == SelectSeq(sorted, LAMBDA u : u.confidence >= m.confidence)
            after == SelectSeq(sorted, LAMBDA u : u.confidence < m.confidence)
        IN before \o <<m>> \o after
      F[k \in 0..Len(list)] ==
        IF k = 0 THEN <<>> ELSE Insert(F[k - 1], list[k])
  IN F[Len(list)]

\* lines 383-390: the Map uniqueNames as a sequence of [key, name] entries
\* in insertion order
uniqueNamesOf(names) ==
  LET F[k \in 0..Len(names)] ==
        IF k = 0 THEN <<>>
        ELSE LET prev == F[k - 1]
                 name == names[k]
                 normalized == trim(toLowerCase(name))
                 hits == {e \in 1..Len(prev) : prev[e].key = normalized}
                 e0 == CHOOSE e \in hits : TRUE
             IN IF hits = {}
                  THEN Append(prev, [key |-> normalized, name |-> name])
                ELSE IF Len(name) > Len(prev[e0].name)
                  THEN [prev EXCEPT ![e0].name = name]
                ELSE prev
  IN F[Len(names)]

\* [...uniqueNames.values()].sort((a, b) => b.length - a.length)
sortByLength(names) ==
  LET Insert(sorted, s) ==
        LET before == SelectSeq(sorted, LAMBDA u : Len(u) >= Len(s))
            after == SelectSeq(sorted, LAMBDA u : Len(u) < Len(s))
        IN before \o <<s>> \o after
      F[k \in 0..Len(names)] ==
        IF k = 0 THEN <<>> ELSE Insert(F[k - 1], names[k])
  IN F[Len(names)]

\* a variant of roundedAverage with Math.floor in place of Math.round
roundedAverageDown(sum, count) == sum \div count

\* Math.round(sum / count) for a non-negative sum
roundedAverage(sum, count) == (2 * sum + count) \div (2 * count)

SumOver(seq, Value(_)) ==
  LET F[k \in 0..Len(seq)] ==
        IF k = 0 THEN 0 ELSE F[k - 1] + Value(seq[k])
  IN F[Len(seq)]

\* lines 368-415: the group built from one entry of getClusters()
buildGroup(pts, accepted, root, members) ==
  LET named == SelectSeq(members, LAMBDA idx : Len(NameOrEmpty(pts[idx].name)) > 0)
      names == [k \in 1..Len(named) |-> pts[named[k]].name]
      uniqueNames == uniqueNamesOf(names)
      sortedNames == sortByLength([k \in 1..Len(uniqueNames) |-> uniqueNames[k].name])
      groupMatches == SelectSeq(accepted,
                                LAMBDA m : /\ SeqHas(members, m.index1)
                                           /\ SeqHas(members, m.index2))
      sumLat == SumOver(members, LAMBDA idx : pts[idx].lat)
      sumLng == SumOver(members, LAMBDA idx : pts[idx].lng)
  IN [representative |-> root,
      members |-> members,
      mergedName |-> IF Len(sortedNames) > 0 /\ Len(sortedNames[1]) > 0
                       THEN sortedNames[1] ELSE Null,
      akaNames |-> IF Len(sortedNames) > 0 THEN Tail(sortedNames) ELSE <<>>,
      centroid |-> [lat |-> Rat(sumLat, Len(members)),
                    lng |-> Rat(sumLng, Len(members))],
      confidence |-> IF Len(groupMatches) > 0
                       THEN roundedAverage(SumOver(groupMatches,
                                                   LAMBDA m : m.confidence),
                                           Len(groupMatches))
                       ELSE 100]

\* deduplicatePoints, lines 449-467, on the groups findDuplicateGroups
\* returned for pts
deduplicatePoints(pts, grps) ==
  LET originalCount == Cardinality(DOMAIN pts)
      single == SelectSeq(grps, LAMBDA g : Len(g.members) = 1)
      dedupedCount == Len(grps)
  IN [originalCount |-> originalCount,
      dedupedCount |-> dedupedCount,
      groups |-> grps,
      singletons |-> [k \in 1..Len(single) |-> single[k].representative],
      \* Math.round((1 - dedupedCount / originalCount) * 100)
      reductionPercent |->
        IF originalCount > 0
          THEN roundedAverage(100 * (originalCount - dedupedCount), originalCount)
          ELSE 0]

(***************************************************************************)
(* map-parser.ts: parseMapFile and parseMapFiles                           *)
(* A path is a record of directory, name and extension: path.basename is   *)
(* the name with the extension, path.extname the extension.  The content   *)
(* of a file is given by the points its parser extracts from it.           *)
(***************************************************************************)

FilePath(dir, name, ext) == [dir |-> dir, name |-> name, ext |-> ext]

\* getFileType(filePath)
getFileType(filePath) ==
  LET Type(ext) ==
        IF ext = <<".","k","m","l">> THEN "kml"
        ELSE IF ext = <<".","k","m","z">> THEN "kmz"
        ELSE IF ext = <<".","g","p","x">> THEN "gpx"
        ELSE IF ext \in {<<".","g","e","o","j","s","o","n">>, <<".","j","s","o","n">>}
          THEN "geojson"
        ELSE IF ext = <<".","c","s","v">> THEN "csv"
        ELSE "unknown"
  IN Bind(toLowerCase(filePath.ext), Type)

\* the files of the model: what opening each path gives ("ok" or the error
\* code) and, for a file that opens, the points its parser returns and the
\* message of the error it throws, if it throws
MapFiles ==
  <<[path |-> FilePath("maps", "sites", <<".","k","m","l">>), open |-> "ok",
     parsed |-> <<Point(Factory, 0), Point(UnionStation, 20)>>, throws |-> ""],
    [path |-> FilePath("maps", "trail", <<".","G","P","X">>), open |-> "ok",
     parsed |-> <<Point(UnionDepot, 45)>>, throws |-> ""],
    [path |-> FilePath("maps", "gone", <<".","c","s","v">>), open |-> "ENOENT",
     parsed |-> <<>>, throws |-> ""],
    [path |-> FilePath("maps", "locked", <<".","j","s","o","n">>), open |-> "EACCES",
     parsed |-> <<>>, throws |-> ""],
    [path |-> FilePath("maps", "notes", <<".","t","x","t">>), open |-> "ok",
     parsed |-> <<>>, throws |-> ""],
    [path |-> FilePath("maps", "photos", <<".","k","m","z">>), open |-> "ok",
     parsed |-> <<>>, throws |-> "No KML file found in KMZ archive"]>>

\* the paths parseMapFiles is called with
MapPaths == {MapFiles[k].path : k \in 1..Len(MapFiles)}

\* the file at a path
FileAt(filePath) ==
  MapFiles[CHOOSE k \in 1..Len(MapFiles) : MapFiles[k].path = filePath]

\* the largest number of paths in one call
MaxFiles == 3

\* the value parseMapFile returns without success; the message is a
\* sequence of strings, the empty sequence standing for no error field
Failure(filePath, message) ==
  [success |-> FALSE,
   points |-> <<>>,
   fileType |-> getFileType(filePath),
   fileName |-> <<filePath.name, filePath.ext>>,
   error |-> message]

\* lines 588-599 of parseMapFile: the part that runs before the first
\* await; the promise the call returns
parseMapFileCalled(filePath) ==
  IF getFileType(filePath) = "unknown"
    THEN [state |-> "fulfilled",
          value |-> Failure(filePath, <<"Unsupported file type: ">> \o filePath.ext)]
  ELSE [state |-> "pending", value |-> <<>>]

\* lines 601-641 of parseMapFile: the call resumes when the file has been
\* read or the read has failed; the promise afterwards
parseMapFileResumed(filePath) ==
  LET file == FileAt(filePath)
  IN IF file.open # "ok"
       THEN [state |-> "fulfilled", value |-> Failure(filePath, <<file.open>>)]
     ELSE IF file.throws # ""
       THEN [state |-> "fulfilled", value |-> Failure(filePath, <<file.throws>>)]
     ELSE [state |-> "fulfilled",
           value |-> [success |-> TRUE,
                      points |-> file.parsed,
                      fileType |-> getFileType(filePath),
                      fileName |-> <<filePath.name, filePath.ext>>,
                      error |-> <<>>]]

\* a variant of promiseAllValues that lists the values in the order the
\* promises settled
promiseAllValuesAsSettled(all, order) ==
  [i \in DOMAIN all |-> all[order[i + 1]].value]

\* Promise.all: the array it resolves with, the value of promise i at
\* index i
promiseAllValues(all, order) ==
  [i \in DOMAIN all |-> all[i].value]

(***************************************************************************)
(* cli.ts: the auto-sync module                                            *)
(* Times are milliseconds since the first invocation.  The content of the  *)
(* check cache file is a sequence: empty when the file does not exist,     *)
(* else the one timestamp written to it.                                   *)
(***************************************************************************)

CHECK_INTERVAL_MS == 3600000

\* the value autoSync returns
SyncResult(checked, updated, version, error) ==
  [checked |-> checked, updated |-> updated, version |-> version,
   error |-> error]

\* shouldCheck(): readable is the outcome of fs.readFileSync, an exception
\* being caught by the catch that returns true
shouldCheck(cache, now, readable) ==
  IF cache = <<>> THEN TRUE
  ELSE IF ~readable THEN TRUE
  ELSE now - cache[1] > CHECK_INTERVAL_MS

\* markChecked(): written is the outcome of fs.mkdirSync and
\* fs.writeFileSync, an exception being caught and ignored
markChecked(files, now, written) ==
  IF written THEN [files EXCEPT !.checkCache = <<now>>] ELSE files

\* the versions getDepotVersion() finds in the depot cache, "null" when it
\* finds none
RemoteVersions == {"0.1.0.7", "0.1.0.8", "null"}

\* getCurrentVersion(projectRoot)
getCurrentVersion(files) ==
  IF files.depotVersion = "absent" THEN "null" ELSE files.depotVersion

\* the outcomes of syncFiles: it returns true, or an exception is caught
\* before the first copy or between the copies and the version file
SyncOutcomes == {"synced", "failedBeforeCopy", "failedAfterCopy"}

\* syncFiles(projectRoot, remoteVersion): the files afterwards
syncFiles(files, remoteVersion, outcome) ==
  IF outcome = "failedBeforeCopy" THEN files
  ELSE IF outcome = "failedAfterCopy"
    THEN [files EXCEPT !.claudeMd = remoteVersion]
  ELSE [files EXCEPT !.claudeMd = remoteVersion,
                     !.depotVersion = remoteVersion]

\* the file operations syncFiles performed
syncEffects(outcome) ==
  IF outcome = "failedBeforeCopy" THEN {}
  ELSE IF outcome = "failedAfterCopy" THEN {"copy"}
  ELSE {"copy", "writeVersion"}

\* the time that passes between two steps, 20 or 30 minutes
TickSteps == {1200000, 1800000}

\* the model stops the clock after 130 minutes
MaxClock == 7800000

(***************************************************************************)
(* State                                                                   *)
(***************************************************************************)

VARIABLES
  pc,                \* where the call is
  points,            \* the argument points, an array indexed from 0
  config,            \* the argument config
  uf,                \* findDuplicateGroups: uf
  clusterMembers,    \* findDuplicateGroups: clusterMembers (root -> set)
  potentialMatches,  \* findDuplicateGroups: potentialMatches
  cursor,            \* position of the for-of loop in potentialMatches
  matches,           \* findDuplicateGroups: matches
  groups,            \* the value findDuplicateGroups returns
  result,            \* the value the call returns
  clock,             \* Date.now(), in milliseconds
  disk,              \* autoSync: the files under ~/.cache and the project root
  effects,           \* autoSync: what the call in progress has done so far
  paths,             \* parseMapFiles: the argument filePaths
  promises,          \* parseMapFiles: the promise of each parseMapFile call
  settled            \* parseMapFiles: the calls in the order they settled

vars == <<pc, points, config, uf, clusterMembers, potentialMatches, cursor,
          matches, groups, result, clock, disk, effects, paths, promises,
          settled>>

NoUnionFind == [parent |-> <<>>, rank |-> <<>>, size |-> <<>>]

NoResult == [matchType |-> "pending", confidence |-> 0]

\* no file of autoSync exists
NoDisk == [checkCache |-> <<>>, depotCache |-> "absent",
           depotVersion |-> "absent", claudeMd |-> "absent"]

\* nothing has been called but the function the specification is about
Elsewhere ==
  /\ clock = 0
  /\ disk = NoDisk
  /\ effects = {}
  /\ paths = <<>>
  /\ promises = <<>>
  /\ settled = <<>>

Init ==
  /\ pc = "idle"
  /\ points = <<>>
  /\ config = DEFAULT_DEDUP_CONFIG
  /\ uf = NoUnionFind
  /\ clusterMembers = <<>>
  /\ potentialMatches = <<>>
  /\ cursor = 0
  /\ matches = <<>>
  /\ groups = <<>>
  /\ result = NoResult
  /\ Elsewhere

(***************************************************************************)
(* findDuplicateGroups, step by step                                       *)
(***************************************************************************)

\* a variant of Start whose first early return is taken for n <= 1
StartEmptyForSingle ==
  /\ pc = "idle"
  /\ \E n \in 0..MaxPoints :
       \E pts \in [0..(n - 1) -> Records], cfg \in Configs :
         /\ points' = pts
         /\ config' = cfg
         /\ IF n <= 1
              THEN /\ groups' = <<>>
                   /\ pc' = "done"
                   /\ UNCHANGED <<uf, clusterMembers>>
            ELSE /\ uf' = NewUnionFind(n)
                 /\ clusterMembers' = [i \in 0..(n - 1) |-> {i}]
                 /\ pc' = "collect"
                 /\ UNCHANGED groups
  /\ UNCHANGED <<potentialMatches, cursor, matches, result,
                 clock, disk, effects, paths, promises, settled>>

\* lines 286-306: the call, the two early returns, uf and clusterMembers
Start ==
  /\ pc = "idle"
  /\ \E n \in 0..MaxPoints :
       \E pts \in [0..(n - 1) -> Records], cfg \in Configs :
         /\ points' = pts
         /\ config' = cfg
         /\ IF n = 0
              THEN /\ groups' = <<>>
                   /\ pc' = "done"
                   /\ UNCHANGED <<uf, clusterMembers>>
            ELSE IF n = 1
              THEN /\ groups' = <<[representative |-> 0,
                                   members |-> <<0>>,
                                   mergedName |-> pts[0].name,
                                   akaNames |-> <<>>,
                                   centroid |-> [lat |-> Rat(pts[0].lat, 1),
                                                 lng |-> Rat(pts[0].lng, 1)],
                                   confidence |-> 100]>>
                   /\ pc' = "done"
                   /\ UNCHANGED <<uf, clusterMembers>>
            ELSE /\ uf' = NewUnionFind(n)
                 /\ clusterMembers' = [i \in 0..(n - 1) |-> {i}]
                 /\ pc' = "collect"
                 /\ UNCHANGED groups
  /\ UNCHANGED <<potentialMatches, cursor, matches, result,
                 clock, disk, effects, paths, promises, settled>>

\* lines 308-324: evaluate every pair, keep the candidates, sort them
Collect ==
  /\ pc = "collect"
  /\ potentialMatches' = sortByConfidence(collectPotentialMatches(points, config))
  /\ cursor' = 1
  /\ pc' = "process"
  /\ UNCHANGED <<points, config, uf, clusterMembers, matches, groups, result,
                 clock, disk, effects, paths, promises, settled>>

\* a variant of CurrentMatch that walks potentialMatches from the end once
\* an earlier call has returned
CurrentMatchBackwardsOnRerun ==
  IF result = NoResult THEN potentialMatches[cursor]
  ELSE potentialMatches[Len(potentialMatches) + 1 - cursor]

\* the candidate the loop is at
CurrentMatch == potentialMatches[cursor]

\* lines 328-329: the two finds at the head of the loop body
Roots ==
  LET f1 == find(uf, CurrentMatch.index1)
      f2 == find(f1.uf, CurrentMatch.index2)
  IN [root1 |-> f1.root, root2 |-> f2.root, uf |-> f2.uf]

Looping == pc = "process" /\ cursor <= Len(potentialMatches)

\* a variant of ProcessSkip without the test of line 332: the candidate goes
\* on to lines 351-352, where union returns false and the match is pushed
ProcessSkipRecordingMatch ==
  /\ Looping
  /\ Roots.root1 = Roots.root2
  /\ uf' = Roots.uf
  /\ matches' = Append(matches, CurrentMatch)
  /\ cursor' = cursor + 1
  /\ UNCHANGED <<pc, points, config, clusterMembers, potentialMatches, groups,
                 result,
                 clock, disk, effects, paths, promises, settled>>

\* line 332: already in the same cluster
ProcessSkip ==
  /\ Looping
  /\ Roots.root1 = Roots.root2
  /\ uf' = Roots.uf
  /\ cursor' = cursor + 1
  /\ UNCHANGED <<pc, points, config, clusterMembers, potentialMatches, matches,
                 groups, result,
                 clock, disk, effects, paths, promises, settled>>

\* a variant of ProcessRejectSize that compares with >= in line 339
ProcessRejectSizeAtLimit ==
  /\ Looping
  /\ Roots.root1 # Roots.root2
  /\ Cardinality(clusterMembers[Roots.root1])
       + Cardinality(clusterMembers[Roots.root2]) >= config.maxClusterSize
  /\ uf' = Roots.uf
  /\ cursor' = cursor + 1
  /\ UNCHANGED <<pc, points, config, clusterMembers, potentialMatches, matches,
                 groups, result,
                 clock, disk, effects, paths, promises, settled>>

\* lines 338-341: the merged cluster would be too large
ProcessRejectSize ==
  /\ Looping
  /\ Roots.root1 # Roots.root2
  /\ Cardinality(clusterMembers[Roots.root1])
       + Cardinality(clusterMembers[Roots.root2]) > config.maxClusterSize
  /\ uf' = Roots.uf
  /\ cursor' = cursor + 1
  /\ UNCHANGED <<pc, points, config, clusterMembers, potentialMatches, matches,
                 groups, result,
                 clock, disk, effects, paths, promises, settled>>

\* lines 344-348: the merged cluster would be too wide
ProcessRejectDiameter ==
  /\ Looping
  /\ Roots.root1 # Roots.root2
  /\ Cardinality(clusterMembers[Roots.root1])
       + Cardinality(clusterMembers[Roots.root2]) <= config.maxClusterSize
  /\ calculateClusterDiameter(points, clusterMembers[Roots.root1]
                                        \cup clusterMembers[Roots.root2])
       > config.maxClusterDiameter
  /\ uf' = Roots.uf
  /\ cursor' = cursor + 1
  /\ UNCHANGED <<pc, points, config, clusterMembers, potentialMatches, matches,
                 groups, result,
                 clock, disk, effects, paths, promises, settled>>

\* a variant of ProcessMerge without the clean-up of lines 360-361
ProcessMergeKeepingOldRoots ==
  /\ Looping
  /\ Roots.root1 # Roots.root2
  /\ Cardinality(clusterMembers[Roots.root1])
       + Cardinality(clusterMembers[Roots.root2]) <= config.maxClusterSize
  /\ calculateClusterDiameter(points, clusterMembers[Roots.root1]
                                        \cup clusterMembers[Roots.root2])
       <= config.maxClusterDiameter
  /\ LET root1 == Roots.root1
         root2 == Roots.root2
         merged == union(Roots.uf, CurrentMatch.index1, CurrentMatch.index2).uf
         f == find(merged, CurrentMatch.index1)
         newRoot == f.root
         mergedCluster == clusterMembers[root1] \cup clusterMembers[root2]
     IN /\ uf' = f.uf
        /\ matches' = Append(matches, CurrentMatch)
        /\ clusterMembers' =
             [r \in DOMAIN clusterMembers \cup {newRoot} |->
                IF r = newRoot THEN mergedCluster ELSE clusterMembers[r]]
  /\ cursor' = cursor + 1
  /\ UNCHANGED <<pc, points, config, potentialMatches, groups, result,
                 clock, disk, effects, paths, promises, settled>>

\* lines 350-361: union, record the match, update clusterMembers
ProcessMerge ==
  /\ Looping
  /\ Roots.root1 # Roots.root2
  /\ Cardinality(clusterMembers[Roots.root1])
       + Cardinality(clusterMembers[Roots.root2]) <= config.maxClusterSize
  /\ calculateClusterDiameter(points, clusterMembers[Roots.root1]
                                        \cup clusterMembers[Roots.root2])
       <= config.maxClusterDiameter
  /\ LET root1 == Roots.root1
         root2 == Roots.root2
         merged == union(Roots.uf, CurrentMatch.index1, CurrentMatch.index2).uf
         f == find(merged, CurrentMatch.index1)
         newRoot == f.root
         mergedCluster == clusterMembers[root1] \cup clusterMembers[root2]
         stale == {r \in {root1, root2} : r # newRoot}
     IN /\ uf' = f.uf
        /\ matches' = Append(matches, CurrentMatch)
        /\ clusterMembers' =
             [r \in (DOMAIN clusterMembers \cup {newRoot}) \ stale |->
                IF r = newRoot THEN mergedCluster ELSE clusterMembers[r]]
  /\ cursor' = cursor + 1
  /\ UNCHANGED <<pc, points, config, potentialMatches, groups, result,
                 clock, disk, effects, paths, promises, settled>>

\* lines 364-418: the groups, one per entry of getClusters()
BuildGroups ==
  /\ pc = "process"
  /\ cursor > Len(potentialMatches)
  /\ LET c == getClusters(uf)
     IN /\ uf' = c.uf
        /\ groups' = [k \in 1..Len(c.clusters) |->
                        buildGroup(points, matches, c.clusters[k].root,
                                   c.clusters[k].members)]
  /\ pc' = "done"
  /\ UNCHANGED <<points, config, clusterMembers, potentialMatches, cursor,
                 matches, result,
                 clock, disk, effects, paths, promises, settled>>

Next ==
  \/ Start
  \/ Collect
  \/ ProcessSkip
  \/ ProcessRejectSize
  \/ ProcessRejectDiameter
  \/ ProcessMerge
  \/ BuildGroups

Spec == Init /\ [][Next]_vars

(***************************************************************************)
(* findDuplicateGroups called a second time with the same arguments        *)
(***************************************************************************)

\* the first call has returned; its groups are kept in result and lines
\* 286-306 run again on the same points and config, with fresh locals
Rerun ==
  /\ pc = "done"
  /\ result = NoResult
  /\ result' = [firstRun |-> groups]
  /\ LET n == Cardinality(DOMAIN points)
     IN IF n = 0
          THEN /\ groups' = <<>>
               /\ pc' = "done"
               /\ uf' = NoUnionFind
               /\ clusterMembers' = <<>>
        ELSE IF n = 1
          THEN /\ groups' = <<[representative |-> 0,
                               members |-> <<0>>,
                               mergedName |-> points[0].name,
                               akaNames |-> <<>>,
                               centroid |-> [lat |-> Rat(points[0].lat, 1),
                                             lng |-> Rat(points[0].lng, 1)],
                               confidence |-> 100]>>
               /\ pc' = "done"
               /\ uf' = NoUnionFind
               /\ clusterMembers' = <<>>
        ELSE /\ uf' = NewUnionFind(n)
             /\ clusterMembers' = [i \in 0..(n - 1) |-> {i}]
             /\ pc' = "collect"
             /\ groups' = <<>>
  /\ potentialMatches' = <<>>
  /\ cursor' = 0
  /\ matches' = <<>>
  /\ UNCHANGED <<points, config,
                 clock, disk, effects, paths, promises, settled>>

TwiceNext ==
  \/ Next
  \/ Rerun

TwiceSpec == Init /\ [][TwiceNext]_vars

(***************************************************************************)
(* findDuplicateGroups on larger batches of fewer records: batches of four *)
(* are the smallest in which find meets a parent chain of length two       *)
(***************************************************************************)

\* the largest batch
MaxClusterPoints == 4

\* the records of these batches: the same name at four places, and the
\* two names that conflict with each other but not with the first
ClusterRecords ==
  {Point(Factory, 0), Point(Factory, 45), Point(Factory, 400),
   Point(Factory, 600), Point(NorthFactory, 0), Point(SouthFactory, 0)}

\* the default configuration and configurations in which each safeguard
\* rejects a candidate
ClusterConfigs ==
  {DEFAULT_DEDUP_CONFIG,
   [DEFAULT_DEDUP_CONFIG EXCEPT !.maxClusterSize = 2],
   [DEFAULT_DEDUP_CONFIG EXCEPT !.maxClusterSize = 3],
   [DEFAULT_DEDUP_CONFIG EXCEPT !.maxClusterDiameter = 40]}

\* lines 286-306: the call, the two early returns, uf and clusterMembers
StartCluster ==
  /\ pc = "idle"
  /\ \E n \in 0..MaxClusterPoints :
       \E pts \in [0..(n - 1) -> ClusterRecords], cfg \in ClusterConfigs :
         /\ points' = pts
         /\ config' = cfg
         /\ IF n = 0
              THEN /\ groups' = <<>>
                   /\ pc' = "done"
                   /\ UNCHANGED <<uf, clusterMembers>>
            ELSE IF n = 1
              THEN /\ groups' = <<[representative |-> 0,
                                   members |-> <<0>>,
                                   mergedName |-> pts[0].name,
                                   akaNames |-> <<>>,
                                   centroid |-> [lat |-> Rat(pts[0].lat, 1),
                                                 lng |-> Rat(pts[0].lng, 1)],
                                   confidence |-> 100]>>
                   /\ pc' = "done"
                   /\ UNCHANGED <<uf, clusterMembers>>
            ELSE /\ uf' = NewUnionFind(n)
                 /\ clusterMembers' = [i \in 0..(n - 1) |-> {i}]
                 /\ pc' = "collect"
                 /\ UNCHANGED groups
  /\ UNCHANGED <<potentialMatches, cursor, matches, result,
                 clock, disk, effects, paths, promises, settled>>

ClusterNext ==
  \/ StartCluster
  \/ Collect
  \/ ProcessSkip
  \/ ProcessRejectSize
  \/ ProcessRejectDiameter
  \/ ProcessMerge
  \/ BuildGroups

ClusterSpec == Init /\ [][ClusterNext]_vars

(***************************************************************************)
(* findDuplicateGroups called a second time with the same records in       *)
(* another order                                                           *)
(***************************************************************************)

\* the orders of n records: perm[k] is the place in the first list of the
\* record at place k of the second list
Orders(n) ==
  {perm \in [0..(n - 1) -> 0..(n - 1)] :
     \A a \in 0..(n - 1) : \A b \in 0..(n - 1) : perm[a] = perm[b] => a = b}

\* the first call has returned; its groups and the order chosen are kept in
\* result and lines 286-306 run on the reordered list with the same config
RerunPermuted ==
  /\ pc = "done"
  /\ result = NoResult
  /\ \E perm \in Orders(Cardinality(DOMAIN points)) :
       LET n == Cardinality(DOMAIN points)
           pts == [k \in 0..(n - 1) |-> points[perm[k]]]
       IN /\ result' = [firstRun |-> groups, perm |-> perm]
          /\ points' = pts
          /\ IF n = 0
               THEN /\ groups' = <<>>
                    /\ pc' = "done"
                    /\ uf' = NoUnionFind
                    /\ clusterMembers' = <<>>
             ELSE IF n = 1
               THEN /\ groups' = <<[representative |-> 0,
                                    members |-> <<0>>,
                                    mergedName |-> pts[0].name,
                                    akaNames |-> <<>>,
                                    centroid |-> [lat |-> Rat(pts[0].lat, 1),
                                                  lng |-> Rat(pts[0].lng, 1)],
                                    confidence |-> 100]>>
                    /\ pc' = "done"
                    /\ uf' = NoUnionFind
                    /\ clusterMembers' = <<>>
             ELSE /\ uf' = NewUnionFind(n)
                  /\ clusterMembers' = [i \in 0..(n - 1) |-> {i}]
                  /\ pc' = "collect"
                  /\ groups' = <<>>
  /\ potentialMatches' = <<>>
  /\ cursor' = 0
  /\ matches' = <<>>
  /\ UNCHANGED <<config, clock, disk, effects, paths, promises, settled>>

PermutedNext ==
  \/ Next
  \/ RerunPermuted

PermutedSpec == Init /\ [][PermutedNext]_vars

(***************************************************************************)
(* checkDuplicate on one pair of points                                    *)
(***************************************************************************)

PairInit ==
  /\ pc = "pair"
  /\ points \in [0..1 -> PairPoints]
  /\ config \in PairConfigs
  /\ uf = NoUnionFind
  /\ clusterMembers = <<>>
  /\ potentialMatches = <<>>
  /\ cursor = 0
  /\ matches = <<>>
  /\ groups = <<>>
  /\ result = NoResult
  /\ Elsewhere

CheckDuplicate ==
  /\ pc = "pair"
  /\ result' = checkDuplicate(points[0], points[1], config)
  /\ pc' = "checked"
  /\ UNCHANGED <<points, config, uf, clusterMembers, potentialMatches, cursor,
                 matches, groups,
                 clock, disk, effects, paths, promises, settled>>

PairNext == CheckDuplicate

PairSpec == PairInit /\ [][PairNext]_vars

(***************************************************************************)
(* The match command and checkDuplicate on one pair of points              *)
(***************************************************************************)

\* the values of --min-confidence: the default and one above the lowest
\* confidence the command assigns
MinConfidences == {50, 70}

\* one iteration of the inner loop of the match command, with points[0] as
\* target and points[1] as reference and the thresholds of config, and
\* checkDuplicate on the same pair with requireGps = false
MatchPair ==
  /\ pc = "pair"
  /\ \E requireBoth \in BOOLEAN, minConfidence \in MinConfidences :
       result' =
         [requireBoth |-> requireBoth,
          minConfidence |-> minConfidence,
          match |-> matchPair(points[0], points[1],
                              [gpsThreshold |-> config.gpsThreshold,
                               nameThreshold |-> config.nameThreshold,
                               requireBoth |-> requireBoth,
                               minConfidence |-> minConfidence]),
          dedup |-> checkDuplicate(points[0], points[1],
                                   [config EXCEPT !.requireGps = FALSE])]
  /\ pc' = "matched"
  /\ UNCHANGED <<points, config, uf, clusterMembers, potentialMatches, cursor,
                 matches, groups,
                 clock, disk, effects, paths, promises, settled>>

MatchNext == MatchPair

MatchSpec == PairInit /\ [][MatchNext]_vars

(***************************************************************************)
(* The functions on names, each called on the names of two records         *)
(***************************************************************************)

NameInit ==
  /\ pc = "names"
  /\ points \in [0..1 -> NamePoints]
  /\ config = DEFAULT_DEDUP_CONFIG
  /\ uf = NoUnionFind
  /\ clusterMembers = <<>>
  /\ potentialMatches = <<>>
  /\ cursor = 0
  /\ matches = <<>>
  /\ groups = <<>>
  /\ result = NoResult
  /\ Elsewhere

\* checkBlockingConflict(name1, name2)
CheckBlockingConflict ==
  /\ pc = "names"
  /\ result' = checkBlockingConflict(points[0].name, points[1].name)
  /\ pc' = "conflict"
  /\ UNCHANGED <<points, config, uf, clusterMembers, potentialMatches, cursor,
                 matches, groups,
                 clock, disk, effects, paths, promises, settled>>

\* isGenericName(name1)
IsGenericName ==
  /\ pc = "names"
  /\ result' = [isGeneric |-> isGenericName(points[0].name)]
  /\ pc' = "generic"
  /\ UNCHANGED <<points, config, uf, clusterMembers, potentialMatches, cursor,
                 matches, groups,
                 clock, disk, effects, paths, promises, settled>>

\* combinedFuzzyMatch(name1, name2) and combinedFuzzyMatch(name2, name1)
CombinedFuzzyMatch ==
  /\ pc = "names"
  /\ result' = [forward |-> combinedFuzzyMatch(points[0].name, points[1].name),
                backward |-> combinedFuzzyMatch(points[1].name, points[0].name)]
  /\ pc' = "scored"
  /\ UNCHANGED <<points, config, uf, clusterMembers, potentialMatches, cursor,
                 matches, groups,
                 clock, disk, effects, paths, promises, settled>>

\* getAdjustedThreshold(name1, name2, baseThreshold)
GetAdjustedThreshold ==
  /\ pc = "names"
  /\ \E baseThreshold \in BaseThresholds :
       result' = [baseThreshold |-> baseThreshold,
                  adjusted |-> getAdjustedThreshold(points[0].name, points[1].name,
                                                    baseThreshold)]
  /\ pc' = "adjusted"
  /\ UNCHANGED <<points, config, uf, clusterMembers, potentialMatches, cursor,
                 matches, groups,
                 clock, disk, effects, paths, promises, settled>>

NameNext ==
  \/ CheckBlockingConflict
  \/ IsGenericName
  \/ CombinedFuzzyMatch
  \/ GetAdjustedThreshold

NameSpec == NameInit /\ [][NameNext]_vars

(***************************************************************************)
(* parseMapFiles: the calls of parseMapFile run concurrently               *)
(***************************************************************************)

\* the indices whose promise is in the state
InState(all, state) == {i \in DOMAIN all : all[i].state = state}

\* the indices of the set in ascending order
Ascending(set) ==
  [k \in 1..Cardinality(set) |->
     CHOOSE i \in set : Cardinality({j \in set : j < i}) = k - 1]

\* line 648: filePaths.map(parseMapFile) calls parseMapFile on each path in
\* turn, each call running up to its first await, and Promise.all waits
ParseMapFiles ==
  /\ pc = "idle"
  /\ \E n \in 0..MaxFiles :
       \E filePaths \in [0..(n - 1) -> MapPaths] :
         LET all == [i \in 0..(n - 1) |-> parseMapFileCalled(filePaths[i])]
         IN /\ paths' = filePaths
            /\ promises' = all
            /\ settled' = Ascending(InState(all, "fulfilled"))
  /\ pc' = "parsing"
  /\ UNCHANGED <<points, config, uf, clusterMembers, potentialMatches, cursor,
                 matches, groups, result, clock, disk, effects>>

\* the file operation one pending call awaits completes and the call runs
\* to its end
FileOperationCompletes ==
  /\ pc = "parsing"
  /\ \E i \in InState(promises, "pending") :
       /\ promises' = [promises EXCEPT ![i] = parseMapFileResumed(paths[i])]
       /\ settled' = Append(settled, i)
  /\ UNCHANGED <<pc, points, config, uf, clusterMembers, potentialMatches,
                 cursor, matches, groups, result, clock, disk, effects, paths>>

\* Promise.all settles: it rejects with the reason of the first promise
\* that rejected, or resolves when every promise is fulfilled; line 649
\* returns the array
PromiseAllSettles ==
  /\ pc = "parsing"
  /\ IF InState(promises, "rejected") # {}
       THEN /\ pc' = "rejected"
            /\ result' = promises[CHOOSE i \in InState(promises, "rejected") :
                                    \A k \in 1..Len(settled) :
                                      settled[k] = i =>
                                        \A l \in 1..(k - 1) :
                                          promises[settled[l]].state # "rejected"].value
     ELSE /\ InState(promises, "pending") = {}
          /\ pc' = "parsed"
          /\ result' = promiseAllValues(promises, settled)
  /\ UNCHANGED <<points, config, uf, clusterMembers, potentialMatches, cursor,
                 matches, groups, clock, disk, effects, paths, promises,
                 settled>>

ParseNext ==
  \/ ParseMapFiles
  \/ FileOperationCompletes
  \/ PromiseAllSettles

ParseSpec == Init /\ [][ParseNext]_vars

(***************************************************************************)
(* autoSync, called at every start of the command line                     *)
(***************************************************************************)

\* lines 963-984 of autoSync: the rate limit, the project root
AutoSyncBegin ==
  /\ pc = "idle"
  /\ \E readable, rootFound, written \in BOOLEAN :
       IF ~shouldCheck(disk.checkCache, clock, readable)
         THEN /\ pc' = "rateLimited"
              /\ result' = SyncResult(FALSE, FALSE, "null", "null")
              /\ UNCHANGED disk
       ELSE IF ~rootFound
         THEN /\ pc' = "returned"
              /\ result' = SyncResult(FALSE, FALSE, "null", "null")
              /\ disk' = markChecked(disk, clock, written)
       ELSE /\ pc' = "checking"
            /\ result' = SyncResult(TRUE, FALSE, "null", "null")
            /\ UNCHANGED disk
  /\ effects' = {}
  /\ UNCHANGED <<points, config, uf, clusterMembers, potentialMatches, cursor,
                 matches, groups, clock, paths, promises, settled>>

\* lines 986-1020 of autoSync: the depot cache, the versions, the copy
AutoSyncFinish ==
  /\ pc = "checking"
  /\ \E fetched, written \in BOOLEAN :
       \E remoteVersion \in RemoteVersions :
         \E outcome \in SyncOutcomes :
           IF ~fetched
             THEN /\ result' = [result EXCEPT
                                  !.error = "Failed to update repo-depot cache"]
                  /\ effects' = {"fetch"}
                  /\ disk' = markChecked(disk, clock, written)
           ELSE IF remoteVersion = "null"
             THEN /\ result' = [result EXCEPT
                                  !.error = "Could not determine repo-depot version"]
                  /\ effects' = {"fetch"}
                  /\ disk' = markChecked([disk EXCEPT !.depotCache = "cloned"],
                                         clock, written)
           ELSE IF getCurrentVersion(disk) = remoteVersion
             THEN /\ result' = [result EXCEPT !.version = remoteVersion]
                  /\ effects' = {"fetch"}
                  /\ disk' = markChecked([disk EXCEPT !.depotCache = "cloned"],
                                         clock, written)
           ELSE /\ result' = [result EXCEPT
                                !.version = remoteVersion,
                                !.updated = (outcome = "synced"),
                                !.error = IF outcome = "synced" THEN "null"
                                          ELSE "Failed to sync files"]
                /\ effects' = {"fetch"} \cup syncEffects(outcome)
                /\ disk' = markChecked(
                             syncFiles([disk EXCEPT !.depotCache = "cloned"],
                                       remoteVersion, outcome),
                             clock, written)
  /\ pc' = "returned"
  /\ UNCHANGED <<points, config, uf, clusterMembers, potentialMatches, cursor,
                 matches, groups, clock, paths, promises, settled>>

\* the command ends; the next start of the command line calls autoSync
\* again
AutoSyncAgain ==
  /\ pc \in {"rateLimited", "returned"}
  /\ pc' = "idle"
  /\ result' = NoResult
  /\ effects' = {}
  /\ UNCHANGED <<points, config, uf, clusterMembers, potentialMatches, cursor,
                 matches, groups, clock, disk, paths, promises, settled>>

\* time passes between two invocations and while git runs
Tick ==
  /\ pc \in {"idle", "checking"}
  /\ \E step \in TickSteps :
       /\ clock + step <= MaxClock
       /\ clock' = clock + step
  /\ UNCHANGED <<pc, points, config, uf, clusterMembers, potentialMatches,
                 cursor, matches, groups, result, disk, effects, paths,
                 promises, settled>>

SyncNext ==
  \/ AutoSyncBegin
  \/ AutoSyncFinish
  \/ AutoSyncAgain
  \/ Tick

SyncSpec == Init /\ [][SyncNext]_vars

(***************************************************************************)
(* Properties                                                              *)
(***************************************************************************)

NumPoints == Cardinality(DOMAIN points)

MembersOf(group) == {group.members[k] : k \in 1..Len(group.members)}

\* the distance of the records i and j of the batch
Distance(i, j) ==
  haversineDistance(points[i].lat, points[i].lng, points[j].lat, points[j].lng)

\* the verdict of checkDuplicate on the records i and j of the batch
PairVerdict(i, j) == checkDuplicate(points[i], points[j], config)

\* the pair (i, j) is a retained candidate: its match type is not 'none'
\* and its confidence reaches minConfidence
Retained(i, j) ==
  \A verdict \in {PairVerdict(i, j)} :
    /\ verdict.matchType # "none"
    /\ verdict.confidence >= config.minConfidence

\* C1: when findDuplicateGroups has returned, every index 0..n-1 is in the
\* member list of exactly one group, no member list holds an index twice or
\* an index outside 0..n-1, and the member counts add up to n (n = 0 and
\* n = 1 included)
C1_GroupsPartitionIndices ==
  pc = "done" =>
    /\ \A i \in DOMAIN points :
         Cardinality({k \in 1..Len(groups) : i \in MembersOf(groups[k])}) = 1
    /\ \A k \in 1..Len(groups) :
         /\ MembersOf(groups[k]) \subseteq DOMAIN points
         /\ Cardinality(MembersOf(groups[k])) = Len(groups[k].members)
    /\ SumOver(groups, LAMBDA g : Len(g.members)) = NumPoints

\* C1, the case: three records returned as one group of two and a singleton
C1_Witness ==
  /\ pc = "done"
  /\ NumPoints = 3
  /\ Len(groups) = 2
  /\ \E k \in 1..2 : Len(groups[k].members) = 2

\* the cluster of record i in the union-find structure
ClusterOf(i) ==
  {j \in DOMAIN uf.parent : findRoot(uf.parent, j) = findRoot(uf.parent, i)}

WithinSafeguards(cluster) ==
  /\ Cardinality(cluster) <= config.maxClusterSize
  /\ \A i \in cluster : \A j \in cluster : Distance(i, j) <= config.maxClusterDiameter

\* C2: with maxClusterSize >= 1 and maxClusterDiameter >= 0, at every point
\* of findDuplicateGroups (so after every accepted merge) every cluster of
\* the union-find structure, and on return every group, has at most
\* maxClusterSize members, any two of them at most maxClusterDiameter apart
C2_ClustersWithinSafeguards ==
  (config.maxClusterSize >= 1 /\ config.maxClusterDiameter >= 0) =>
    /\ \A i \in DOMAIN uf.parent : WithinSafeguards(ClusterOf(i))
    /\ \A r \in DOMAIN clusterMembers : WithinSafeguards(clusterMembers[r])
    /\ pc = "done" =>
         \A k \in 1..Len(groups) : WithinSafeguards(MembersOf(groups[k]))

\* C2, the case: a merge was accepted and a later candidate, whose records
\* ended in different groups, was turned down by a safeguard
C2_Witness ==
  /\ pc = "done"
  /\ config.maxClusterSize >= 1
  /\ config.maxClusterDiameter >= 0
  /\ Len(matches) >= 1
  /\ \E c \in 1..Len(potentialMatches) :
       \A k \in 1..Len(groups) :
         ~({potentialMatches[c].index1, potentialMatches[c].index2}
             \subseteq MembersOf(groups[k]))

\* the names of the two records, as checkDuplicate reads them
NamesOf(i, j) == <<NameOrEmpty(points[i].name), NameOrEmpty(points[j].name)>>

\* checkBlockingConflict(name1, name2).hasConflict for the names of the
\* records i and j
BlockingBetween(i, j) == NameScores[NamesOf(i, j)].blocking.hasConflict

\* C3 as stated: when findDuplicateGroups has returned, no group holds two
\* records whose names have a blocking conflict
C3_NoGroupHoldsBlockingConflict ==
  pc = "done" =>
    \A k \in 1..Len(groups) :
      \A a \in MembersOf(groups[k]) : \A b \in MembersOf(groups[k]) :
        ~BlockingBetween(a, b)

\* C4: whenever checkBlockingConflict reports a conflict between the two
\* names, checkDuplicate returns match type 'none' and confidence 0,
\* whatever the distance, the name scores and the configuration
C4_BlockingVetoIsAbsolute ==
  (pc = "checked" /\ BlockingBetween(0, 1)) =>
    (result.matchType = "none" /\ result.confidence = 0)

\* C4, the case: conflicting names at distance 0 whose token set ratio
\* reaches nameThreshold
C4_Witness ==
  /\ pc = "checked"
  /\ BlockingBetween(0, 1)
  /\ result.gpsDistance = 0
  /\ AtLeast(result.tokenSetRatio, config.nameThreshold)
  /\ result.matchType = "none"

\* Math.max of the name similarity useSmartMatch selects and the token set
\* ratio of the two records' names; 0 when a name is empty
CombinedNameScore ==
  LET scores == NameScores[NamesOf(0, 1)]
  IN IF Len(NamesOf(0, 1)[1]) > 0 /\ Len(NamesOf(0, 1)[2]) > 0
       THEN RatMax(IF config.useSmartMatch THEN scores.normalizedSimilarity
                   ELSE scores.jaroWinklerSimilarity,
                   scores.tokenSetRatio)
       ELSE Zero

\* the seven rules in order, for a pair whose names match when the combined
\* score reaches threshold
Rules(threshold) ==
  LET gps == Distance(0, 1) <= config.gpsThreshold
      name == AtLeast(CombinedNameScore, threshold)
      generic == GenericNames[NamesOf(0, 1)[1]] \/ GenericNames[NamesOf(0, 1)[2]]
      empty == Len(NamesOf(0, 1)[1]) = 0 /\ Len(NamesOf(0, 1)[2]) = 0
  IN <<[applies |-> BlockingBetween(0, 1), matchType |-> "none", confidence |-> 0],
       [applies |-> gps /\ name, matchType |-> "both", confidence |-> 95],
       [applies |-> gps /\ generic
                      /\ Distance(0, 1) <= config.genericGpsThreshold,
        matchType |-> "gps", confidence |-> 70],
       [applies |-> gps /\ empty, matchType |-> "gps", confidence |-> 60],
       [applies |-> name /\ ~config.requireGps,
        matchType |-> IF AtLeast(CombinedNameScore, 900) THEN "name" ELSE "none",
        confidence |-> IF AtLeast(CombinedNameScore, 950) THEN 80
                       ELSE IF AtLeast(CombinedNameScore, 900) THEN 65
                       ELSE 0],
       [applies |-> gps /\ AtLeast(CombinedNameScore, 700),
        matchType |-> "both", confidence |-> 75],
       [applies |-> TRUE, matchType |-> "none", confidence |-> 0]>>

\* the number of the first rule that applies
FirstApplicable(threshold) ==
  CHOOSE k \in 1..7 :
    /\ Rules(threshold)[k].applies
    /\ \A j \in 1..(k - 1) : ~Rules(threshold)[j].applies

\* C5: checkDuplicate returns the verdict of the first rule that applies,
\* the rules taken in the order (1) blocking conflict, (2) GPS and name,
\* (3) GPS and generic within genericGpsThreshold, (4) GPS and both names
\* empty, (5) name without GPS, (6) GPS and score >= 0.70, (7) none
C5_FirstApplicableRuleWins ==
  pc = "checked" =>
    LET rule == Rules(config.nameThreshold)[FirstApplicable(config.nameThreshold)]
    IN /\ result.matchType = rule.matchType
       /\ result.confidence = rule.confidence

\* C5, the case: two unnamed records within genericGpsThreshold, where the
\* generic rule (3) and the both-unnamed rule (4) both apply
C5_Witness ==
  /\ pc = "checked"
  /\ FirstApplicable(config.nameThreshold) = 3
  /\ Rules(config.nameThreshold)[4].applies
  /\ result.matchType = "gps"
  /\ result.confidence = 70

\* the records i and j were evaluated as a retained candidate (the code
\* evaluates the pair with the lower index first)
Linked(i, j) == i # j /\ Retained(Min(i, j), Max(i, j))

\* the records connected to those of S by chains of retained candidates
RECURSIVE ChainedFrom(_)
ChainedFrom(S) ==
  LET next == S \cup {j \in DOMAIN points : \E i \in S : Linked(i, j)}
  IN IF next = S THEN S ELSE ChainedFrom(next)

\* C6: when findDuplicateGroups has returned, any two records of one group
\* are connected by a chain of pairs each evaluated with a match type other
\* than 'none' and a confidence >= minConfidence, and a record with no such
\* pair is a group of its own
C6_GroupsFollowRetainedPairs ==
  pc = "done" =>
    /\ \A k \in 1..Len(groups) :
         \A a \in MembersOf(groups[k]) :
           MembersOf(groups[k]) \subseteq ChainedFrom({a})
    /\ \A i \in DOMAIN points :
         (\A j \in DOMAIN points : ~Linked(i, j)) =>
           \E k \in 1..Len(groups) : groups[k].members = <<i>>

\* C6, the case: a group with two records that are no retained pair
\* themselves: a chain through a third record joins them
C6_Witness ==
  /\ pc = "done"
  /\ \E k \in 1..Len(groups) :
       \E a \in MembersOf(groups[k]) : \E b \in MembersOf(groups[k]) :
         a # b /\ ~Linked(a, b)

\* candidate a comes before candidate b in the order of C7: higher
\* confidence first, equal confidence in the order of the pair enumeration
ComesBefore(a, b) ==
  \/ a.confidence > b.confidence
  \/ /\ a.confidence = b.confidence
     /\ \/ a.index1 < b.index1
        \/ a.index1 = b.index1 /\ a.index2 < b.index2

\* C7: once the candidates are collected, potentialMatches holds exactly
\* the retained pairs, in non-increasing confidence and, at equal
\* confidence, in pair enumeration order; the loop has unioned only
\* candidates it has passed, in that order, so none before a candidate of
\* strictly higher confidence was processed
C7_CandidatesInConfidenceOrder ==
  pc \in {"process", "done"} =>
    /\ \A i \in DOMAIN points : \A j \in DOMAIN points :
         i < j =>
           \A verdict \in {PairVerdict(i, j)} :
             (/\ verdict.matchType # "none"
              /\ verdict.confidence >= config.minConfidence) <=>
               \E c \in 1..Len(potentialMatches) :
                 potentialMatches[c] = [verdict EXCEPT !.index1 = i,
                                                       !.index2 = j]
    /\ \A a \in 1..Len(potentialMatches) : \A b \in 1..Len(potentialMatches) :
         a < b => ComesBefore(potentialMatches[a], potentialMatches[b])
    /\ \A m \in 1..Len(matches) :
         \E c \in 1..(cursor - 1) :
           /\ potentialMatches[c] = matches[m]
           /\ \A d \in 1..Len(potentialMatches) :
                potentialMatches[d].confidence > matches[m].confidence => d < c
           /\ \A l \in 1..(m - 1) : ComesBefore(matches[l], matches[m])

\* C7, the case: three candidates, the one of the last pair (1, 2) sorted
\* to the front, the other two of equal confidence, two of them unioned
C7_Witness ==
  /\ pc = "done"
  /\ Len(potentialMatches) = 3
  /\ potentialMatches[1].index1 = 1
  /\ potentialMatches[2].confidence = potentialMatches[3].confidence
  /\ potentialMatches[1].confidence > potentialMatches[2].confidence
  /\ Len(matches) = 2

\* C8 as stated: checkDuplicate reports a match for a pair with a generic
\* name only if the two records are within genericGpsThreshold
C8_GenericNameNeedsCloseGps ==
  (/\ pc = "checked"
   /\ GenericNames[NamesOf(0, 1)[1]] \/ GenericNames[NamesOf(0, 1)[2]]
   /\ result.matchType # "none") =>
    Distance(0, 1) <= config.genericGpsThreshold

\* the threshold C9 names: with useSmartMatch the word-overlap-adjusted
\* threshold of getAdjustedThreshold, else nameThreshold
SmartThreshold ==
  IF config.useSmartMatch /\ NameScores[NamesOf(0, 1)].boosted
    THEN Max(config.nameThreshold - WORD_OVERLAP_BOOST, MIN_BOOSTED_THRESHOLD)
    ELSE config.nameThreshold

\* C9 as stated: checkDuplicate decides whether the names match by
\* comparing the combined score with the word-overlap-adjusted threshold
\* when useSmartMatch is set, and with nameThreshold when it is not
C9_SmartMatchUsesAdjustedThreshold ==
  pc = "checked" =>
    LET rule == Rules(SmartThreshold)[FirstApplicable(SmartThreshold)]
    IN /\ result.matchType = rule.matchType
       /\ result.confidence = rule.confidence

\* the configurations C10 calls out of range
OutOfRange(cfg) ==
  \/ cfg.nameThreshold < 0 \/ cfg.nameThreshold > 1000
  \/ cfg.gpsThreshold < 0
  \/ cfg.maxClusterSize < 0
  \/ cfg.maxClusterDiameter < 0
  \/ cfg.minConfidence < 0 \/ cfg.minConfidence > 100

\* C10 as stated: with an out-of-range configuration findDuplicateGroups
\* creates no union-find or cluster-membership state and returns no
\* grouping
C10_OutOfRangeConfigFailsFast ==
  OutOfRange(config) =>
    /\ uf = NoUnionFind
    /\ clusterMembers = <<>>
    /\ pc # "done"

\* both records of the pair (i, j) have an empty name (null or '')
BothUnnamed(i, j) == Len(NamesOf(i, j)[1]) = 0 /\ Len(NamesOf(i, j)[2]) = 0

\* C11 as stated: when both records of a pair have an empty name, the name
\* score checkDuplicate compares against nameThreshold (the larger of
\* nameSimilarity and tokenSetRatio) is 1.0 and counts like any other score:
\* with nameThreshold <= 1 the pair is a name match, so within gpsThreshold
\* the verdict is both/95
C11_EmptyNamesScoreOne ==
  (pc = "checked" /\ BothUnnamed(0, 1)) =>
    /\ RatMax(result.nameSimilarity, result.tokenSetRatio) = One
    /\ (Distance(0, 1) <= config.gpsThreshold /\ config.nameThreshold <= 1000) =>
         (result.matchType = "both" /\ result.confidence = 95)

\* C12: two records of a batch that both have no name and lie within
\* gpsThreshold of each other are evaluated as match type 'gps' with a
\* confidence of at least 60 (nameThreshold > 0), and under the default
\* configuration a batch of two such records is returned as one group
C12_UnnamedNearbyMatchOnGps ==
  /\ \A i \in DOMAIN points : \A j \in DOMAIN points :
       (/\ pc # "idle"
        /\ i < j
        /\ BothUnnamed(i, j)
        /\ Distance(i, j) <= config.gpsThreshold
        /\ config.nameThreshold > 0) =>
         /\ PairVerdict(i, j).matchType = "gps"
         /\ PairVerdict(i, j).confidence >= 60
  /\ (/\ pc = "done"
      /\ config = DEFAULT_DEDUP_CONFIG
      /\ NumPoints = 2
      /\ BothUnnamed(0, 1)
      /\ Distance(0, 1) <= config.gpsThreshold) =>
       (Len(groups) = 1 /\ groups[1].members = <<0, 1>>)

\* C12, the case: two unnamed records 1 metre apart under the default
\* configuration, returned as one group
C12_Witness ==
  /\ pc = "done"
  /\ config = DEFAULT_DEDUP_CONFIG
  /\ NumPoints = 2
  /\ BothUnnamed(0, 1)
  /\ Distance(0, 1) = 1
  /\ PairVerdict(0, 1).matchType = "gps"
  /\ Len(groups) = 1

C15_EmptyAndSingleInputs ==
  /\ (pc # "idle" /\ NumPoints <= 1) => pc = "done"
  /\ (pc = "done" /\ NumPoints = 0) =>
       /\ groups = <<>>
       /\ deduplicatePoints(points, groups).originalCount = 0
       /\ deduplicatePoints(points, groups).dedupedCount = 0
       /\ deduplicatePoints(points, groups).reductionPercent = 0
  /\ (pc = "done" /\ NumPoints = 1) =>
       /\ Len(groups) = 1
       /\ groups[1].members = <<0>>
       /\ groups[1].representative = 0
       /\ groups[1].confidence = 100

\* C15, the case: a single record returned as its own group
C15_Witness ==
  /\ pc = "done"
  /\ NumPoints = 1
  /\ Len(groups) = 1
  /\ groups[1].members = <<0>>
  /\ deduplicatePoints(points, groups).dedupedCount = 1

\* the accepted merges whose two endpoints are members of the group
MergesInside(group) ==
  SelectSeq(matches, LAMBDA m : /\ m.index1 \in MembersOf(group)
                                /\ m.index2 \in MembersOf(group))

\* c is sum / count rounded to the nearest integer (a half rounds up)
IsRoundedMean(c, sum, count) ==
  /\ 2 * c * count <= 2 * sum + count
  /\ 2 * sum + count < 2 * (c + 1) * count

\* C16: a group with one member has confidence 100; the confidence of a
\* group with two or more members is the rounded mean of the confidences
\* of exactly the accepted merges that have both endpoints in the group
C16_GroupConfidenceIsMeanOfMerges ==
  pc = "done" =>
    \A k \in 1..Len(groups) :
      IF Len(groups[k].members) = 1
        THEN groups[k].confidence = 100
        ELSE /\ Len(MergesInside(groups[k])) > 0
             /\ IsRoundedMean(groups[k].confidence,
                              SumOver(MergesInside(groups[k]),
                                      LAMBDA m : m.confidence),
                              Len(MergesInside(groups[k])))

\* C16, the case: a group of three records built from a merge of
\* confidence 95 and one of confidence 70, whose mean 82.5 is rounded to 83
C16_Witness ==
  /\ pc = "done"
  /\ Len(matches) = 2
  /\ matches[1].confidence = 95
  /\ matches[2].confidence = 70
  /\ Len(groups) = 1
  /\ Len(groups[1].members) = 3
  /\ groups[1].confidence = 83

\* the key of the case-insensitive deduplication of names
NameKey(name) == trim(toLowerCase(name))

\* the non-empty names of the members of a group
MemberNames(group) ==
  {name \in {points[i].name : i \in MembersOf(group)} :
     Len(NameOrEmpty(name)) > 0}

\* mergedName followed by akaNames
ListedNames(group) ==
  IF group.mergedName = Null THEN group.akaNames
  ELSE <<group.mergedName>> \o group.akaNames

\* C17 as stated: of every group, mergedName is the longest of the
\* members' names after a case-insensitive deduplication that keeps the
\* longest variant per key; akaNames holds the other deduplicated names in
\* descending length; every non-empty member name equals one of them
\* case-insensitively; mergedName is null exactly when no member has a
\* non-empty name
C17_MergedNameIsLongestMemberName ==
  pc = "done" =>
    \A k \in 1..Len(groups) :
      LET listed == ListedNames(groups[k])
          names == MemberNames(groups[k])
      IN /\ (groups[k].mergedName = Null) <=> (names = {})
         /\ \A a \in 1..Len(listed) :
              /\ listed[a] \in names
              /\ \A name \in names :
                   NameKey(name) = NameKey(listed[a]) => Len(name) <= Len(listed[a])
              /\ \A b \in 1..Len(listed) :
                   /\ a < b => Len(listed[a]) >= Len(listed[b])
                   /\ a # b => NameKey(listed[a]) # NameKey(listed[b])
         /\ \A name \in names :
              \E a \in 1..Len(listed) : NameKey(listed[a]) = NameKey(name)

\* the blocking categories in the order C13 gives
Categories == <<"direction", "temporal", "numbered", "identifier">>

\* the tokens of one blocking category that a name contains: its words
\* that are in the category's word list, or the texts its lower-cased form
\* gives for the identifier patterns
BlockingTokens(name, category) ==
  LET tokens == tokenize(name)
      words == {tokens[k] : k \in 1..Len(tokens)}
      lowered == toLowerCase(name)
  IN IF category = "direction" THEN words \cap BLOCKING_DIRECTIONS
     ELSE IF category = "temporal" THEN words \cap BLOCKING_TEMPORAL
     ELSE IF category = "numbered" THEN words \cap BLOCKING_NUMBERED
     ELSE UNION {{identifierMatch(lowered, IDENTIFIER_PATTERNS[k])[m] :
                    m \in 1..Len(identifierMatch(lowered, IDENTIFIER_PATTERNS[k]))} :
                 k \in 1..Len(IDENTIFIER_PATTERNS)}

\* both names contain a token of the category and the tokens differ
CategoryConflict(category) ==
  \E t1 \in BlockingTokens(NamesOf(0, 1)[1], category) :
    \E t2 \in BlockingTokens(NamesOf(0, 1)[2], category) : t1 # t2

\* the positions in Categories of the categories with a conflict
Conflicting == {c \in 1..Len(Categories) : CategoryConflict(Categories[c])}

\* C13: checkBlockingConflict reports a conflict exactly when for some
\* category both names contain a token of that category and the tokens
\* differ; the reported conflictType is the first such category in the order
\* direction, temporal, numbered, identifier; a token in only one name, or
\* the same value in both, is no conflict
C13_ConflictIsFirstDifferingCategory ==
  pc = "conflict" =>
    /\ result.hasConflict <=> Conflicting # {}
    /\ Conflicting # {} =>
         result.conflictType =
           Categories[CHOOSE c \in Conflicting : \A d \in Conflicting : c <= d]
    /\ Conflicting = {} => result.conflictType = "null"

\* C13, the case: names that differ in a direction word and in a temporal
\* word, reported as a direction conflict
C13_Witness ==
  /\ pc = "conflict"
  /\ CategoryConflict("direction")
  /\ CategoryConflict("temporal")
  /\ result.hasConflict
  /\ result.conflictType = "direction"

\* C18: jaroWinklerSimilarity and tokenSetRatio give the same score for
\* (a, b) and for (b, a), so combinedFuzzyMatch(a, b) and
\* combinedFuzzyMatch(b, a) are equal component by component
C18_NameScoresAreSymmetric ==
  pc = "scored" =>
    /\ result.forward.jaroWinkler = result.backward.jaroWinkler
    /\ result.forward.tokenSetRatio = result.backward.tokenSetRatio
    /\ result.forward.combined = result.backward.combined

\* C18, the case: two names of different lengths whose scores are neither
\* 0 nor 1
C18_Witness ==
  /\ pc = "scored"
  /\ Len(NamesOf(0, 1)[1]) < Len(NamesOf(0, 1)[2])
  /\ result.forward.jaroWinkler \notin {Zero, One}
  /\ result.forward.tokenSetRatio \notin {Zero, One}
  /\ result.forward.jaroWinkler # result.forward.tokenSetRatio

\* normalizeName of every sample name, tabulated once
NormalizedNames == <<>> @@ [s \in SampleNames |-> normalizeName(s)]

\* the words of length >= 2 of a normalized name
OverlapWords(normalized) ==
  LET pieces == splitSpaces(normalized)
  IN {w \in {pieces[k] : k \in 1..Len(pieces)} : Len(w) >= 2}

\* the normalized names of the two records share at least one word of
\* length >= 2 and the shared words are at least a quarter of all words
SharesEnoughWords ==
  LET words1 == OverlapWords(NormalizedNames[NamesOf(0, 1)[1]])
      words2 == OverlapWords(NormalizedNames[NamesOf(0, 1)[2]])
  IN /\ words1 \cap words2 # {}
     /\ 4 * Cardinality(words1 \cap words2) >= Cardinality(words1 \cup words2)

\* C19 as stated: when the normalized names share enough words the
\* threshold getAdjustedThreshold returns is base lowered by 0.10 but not
\* below 0.70, and is at most base for every base; otherwise it is base
C19_AdjustedThresholdNeverAboveBase ==
  pc = "adjusted" =>
    IF SharesEnoughWords
      THEN /\ result.adjusted = Max(result.baseThreshold - WORD_OVERLAP_BOOST,
                                    MIN_BOOSTED_THRESHOLD)
           /\ result.adjusted <= result.baseThreshold
      ELSE result.adjusted = result.baseThreshold

\* a name is generic as C20 defines it: empty, or one token of
\* GENERIC_NAMES, or two tokens of which one is in GENERIC_NAMES and the
\* other in the region words
GenericAsStated(name) ==
  LET tokens == tokenize(name)
  IN \/ Len(name) = 0
     \/ Len(tokens) = 1 /\ tokens[1] \in GENERIC_NAMES
     \/ /\ Len(tokens) = 2
        /\ \E k \in 1..2 : /\ tokens[k] \in GENERIC_NAMES
                           /\ tokens[3 - k] \in SUGGESTION_REGION_WORDS

\* C20 as stated: isGenericName(name) is true exactly when the name is
\* empty, or is one token of GENERIC_NAMES, or is two tokens, one of
\* GENERIC_NAMES and one region word; the suggestion-filter word set plays
\* no part
C20_GenericNameUsesMatcherWordSet ==
  pc = "generic" =>
    (result.isGeneric <=> GenericAsStated(NamesOf(0, 1)[1]))

\* C26 as stated: checkBlockingConflict called with the same name twice
\* reports no conflict, whatever blocking words the name holds
C26_SameNameHasNoConflict ==
  (pc = "conflict" /\ points[0].name = points[1].name) =>
    ~result.hasConflict

\* the token set of a name: the distinct tokens tokenize returns
TokenSet(name) == {tokenize(name)[k] : k \in 1..Len(tokenize(name))}

\* the token set of one of the two names is a non-empty subset of the
\* other's
OneTokenSetInsideOther ==
  \E sets \in {<<TokenSet(NamesOf(0, 1)[1]), TokenSet(NamesOf(0, 1)[2])>>} :
    /\ sets[1] # {}
    /\ sets[2] # {}
    /\ sets[1] \subseteq sets[2] \/ sets[2] \subseteq sets[1]

\* C28: tokenSetRatio returns 1.0 whenever the token set of one name is a
\* non-empty subset of the token set of the other, in either argument order
C28_SubsetTokenSetScoresOne ==
  (pc = "scored" /\ OneTokenSetInsideOther) =>
    /\ result.forward.tokenSetRatio = One
    /\ result.backward.tokenSetRatio = One

\* C28, the case: 'Mill' against 'North Mill', token sets that differ, the
\* Jaro-Winkler score of the two names below 1.0
C28_Witness ==
  /\ pc = "scored"
  /\ points[0].name = Mill
  /\ points[1].name = NorthMill
  /\ TokenSet(Mill) # TokenSet(NorthMill)
  /\ result.forward.tokenSetRatio = One
  /\ result.forward.jaroWinkler # One

\* the records i and j are in the same cluster of uf
SameCluster(i, j) == findRoot(uf.parent, i) = findRoot(uf.parent, j)

\* C24: the step that creates uf leaves every record in a cluster of its
\* own, and every later step of the run (a find with its path compression, a
\* union, getClusters) keeps two records of one cluster in one cluster
C24_ClustersOnlyMerge ==
  [][/\ (pc = "idle" /\ pc' = "collect") =>
          \A i \in DOMAIN points' : \A j \in DOMAIN points' :
            (i # j) => ~SameCluster(i, j)'
     /\ pc \in {"collect", "process"} =>
          \A i \in DOMAIN points : \A j \in DOMAIN points :
            SameCluster(i, j) => (SameCluster(i, j))']_vars

\* C24, the case: a root of rank 2, so a parent chain of length two was
\* built, and every record now points at that root, so find has compressed
\* the chain; all four records are still in one cluster
C24_Witness ==
  /\ pc \in {"process", "done"}
  /\ NumPoints = 4
  /\ \E r \in DOMAIN points :
       /\ uf.rank[r] = 2
       /\ \A i \in DOMAIN points : uf.parent[i] = r

\* the roots of uf: the indices that are their own parent
UfRoots == {r \in DOMAIN uf.parent : uf.parent[r] = r}

\* the records whose find is r
FoundAt(r) == {i \in DOMAIN uf.parent : findRoot(uf.parent, i) = r}

\* C30: from the creation of clusterMembers on, after every candidate the
\* loop has processed and after getClusters, the keys of clusterMembers are
\* exactly the roots of uf, the entry of root r is {i : find(i) = r}, the
\* entries are pairwise disjoint and cover every index, and size[r] is the
\* number of records in the entry
C30_ClusterMembersFollowRoots ==
  (pc \in {"collect", "process", "done"} /\ NumPoints >= 2) =>
    /\ DOMAIN clusterMembers = UfRoots
    /\ \A r \in UfRoots :
         /\ clusterMembers[r] = FoundAt(r)
         /\ uf.size[r] = Cardinality(clusterMembers[r])
    /\ \A r \in DOMAIN clusterMembers : \A q \in DOMAIN clusterMembers :
         (r # q) => clusterMembers[r] \cap clusterMembers[q] = {}
    /\ UNION {clusterMembers[r] : r \in DOMAIN clusterMembers} = DOMAIN points

\* C30, the case: every candidate processed, a cluster of three whose root
\* is not its first record, so the entry of the first record's old root was
\* deleted, and a second cluster beside it
C30_Witness ==
  /\ pc = "process"
  /\ cursor > Len(potentialMatches)
  /\ Len(matches) = 2
  /\ Cardinality(DOMAIN clusterMembers) = 2
  /\ \E r \in DOMAIN clusterMembers :
       /\ Cardinality(clusterMembers[r]) = 3
       /\ \E i \in clusterMembers[r] : i < r

\* the accepted matches with both records in the set
AcceptedInside(set) ==
  {m \in 1..Len(matches) : matches[m].index1 \in set /\ matches[m].index2 \in set}

\* the records joined to those of S by chains of accepted matches
RECURSIVE JoinedFrom(_)
JoinedFrom(S) ==
  LET next == S \cup {matches[m].index1 : m \in {k \in 1..Len(matches) :
                                                   matches[k].index2 \in S}}
                \cup {matches[m].index2 : m \in {k \in 1..Len(matches) :
                                                   matches[k].index1 \in S}}
  IN IF next = S THEN S ELSE JoinedFrom(next)

\* C29: while the loop runs, the clusters of uf number n minus the accepted
\* matches (each accepted match joined two clusters that were distinct) and
\* a cluster of k records holds exactly k - 1 accepted matches, which
\* connect it; when findDuplicateGroups has returned, the groups number n
\* minus the accepted matches and a group of k members has exactly k - 1
\* contributing matches, which connect its members
C29_AcceptedMergesFormForest ==
  /\ pc \in {"collect", "process"} =>
       /\ Cardinality(UfRoots) = NumPoints - Len(matches)
       /\ \A r \in UfRoots :
            /\ Cardinality(AcceptedInside(FoundAt(r))) = Cardinality(FoundAt(r)) - 1
            /\ JoinedFrom({r}) = FoundAt(r)
  /\ pc = "done" =>
       /\ Len(groups) = NumPoints - Len(matches)
       /\ \A k \in 1..Len(groups) :
            /\ Cardinality(AcceptedInside(MembersOf(groups[k])))
                 = Len(groups[k].members) - 1
            /\ JoinedFrom({groups[k].representative}) = MembersOf(groups[k])

\* C29, the case: four records returned as a group of three and a group of
\* one, two accepted matches, and a third candidate that was passed over
\* because its records were already joined
C29_Witness ==
  /\ pc = "done"
  /\ NumPoints = 4
  /\ Len(groups) = 2
  /\ Len(matches) = 2
  /\ \E k \in 1..2 : Len(groups[k].members) = 3
  /\ \E c \in 1..Len(potentialMatches) :
       /\ \A m \in 1..Len(matches) : matches[m] # potentialMatches[c]
       /\ \E k \in 1..2 : {potentialMatches[c].index1, potentialMatches[c].index2}
                              \subseteq MembersOf(groups[k])

\* the largest distance between two records of the set
Widest(set) ==
  CHOOSE d \in {Distance(i, j) : i \in set, j \in set} :
    \A i \in set : \A j \in set : Distance(i, j) <= d

\* the two sets of records, merged, would break a safeguard
MergeExceeds(set1, set2) ==
  \/ Cardinality(set1) + Cardinality(set2) > config.maxClusterSize
  \/ Widest(set1 \cup set2) > config.maxClusterDiameter

\* the members of the group that record i was returned in
GroupOf(i) ==
  MembersOf(groups[CHOOSE k \in 1..Len(groups) : i \in MembersOf(groups[k])])

\* C23: at every point of the loop, a candidate already processed whose two
\* records are in different clusters is one whose two clusters, merged,
\* would exceed maxClusterSize or maxClusterDiameter; and when
\* findDuplicateGroups has returned, the same holds of every retained pair
\* and the final groups of its two records
C23_NoAdmissibleMergeLeft ==
  /\ pc = "process" =>
       \A c \in 1..(cursor - 1) :
         \A pair \in {<<potentialMatches[c].index1, potentialMatches[c].index2>>} :
           ~SameCluster(pair[1], pair[2]) =>
             MergeExceeds(FoundAt(findRoot(uf.parent, pair[1])),
                          FoundAt(findRoot(uf.parent, pair[2])))
  /\ (pc = "done" /\ NumPoints >= 2) =>
       \A i \in DOMAIN points : \A j \in DOMAIN points :
         (i < j /\ Retained(i, j) /\ GroupOf(i) # GroupOf(j)) =>
           MergeExceeds(GroupOf(i), GroupOf(j))

\* C23, the case: a retained pair left in different groups whose two
\* records alone are within both safeguards: the candidate was rejected
\* for the clusters its records had joined before it was processed
C23_Witness ==
  /\ pc = "done"
  /\ \E i \in DOMAIN points : \E j \in DOMAIN points :
       /\ i < j
       /\ Retained(i, j)
       /\ GroupOf(i) # GroupOf(j)
       /\ ~MergeExceeds({i}, {j})
       /\ Cardinality(GroupOf(i)) + Cardinality(GroupOf(j))
            <= config.maxClusterSize

\* the records at places a and b of the list are in one group of grps
TogetherIn(grps, a, b) ==
  \E k \in 1..Len(grps) : {a, b} \subseteq MembersOf(grps[k])

\* C27 as stated: when the call on the reordered list has returned, two
\* records are in one group exactly if they were in one group of the first
\* call
C27_PartitionIndependentOfOrder ==
  (pc = "done" /\ result # NoResult) =>
    \A a \in DOMAIN points : \A b \in DOMAIN points :
      TogetherIn(groups, a, b)
        <=> TogetherIn(result.firstRun, result.perm[a], result.perm[b])

\* C25 as stated: without --require-both, the match command gives a pair
\* the match type and confidence checkDuplicate gives it with the same
\* thresholds, requireGps = false and the default useSmartMatch
C25_MatchCommandAgreesWithCheckDuplicate ==
  (pc = "matched" /\ ~result.requireBoth /\ config.useSmartMatch) =>
    /\ result.match.matchType = result.dedup.matchType
    /\ result.match.confidence = result.dedup.confidence

\* what parseMapFile returns for the path when it is the only call
ParsedAlone(filePath) ==
  IF parseMapFileCalled(filePath).state = "fulfilled"
    THEN parseMapFileCalled(filePath).value
  ELSE parseMapFileResumed(filePath).value

\* the file at the path is missing, unreadable or of unsupported type
CannotBeParsed(filePath) ==
  \/ FileAt(filePath).open # "ok"
  \/ getFileType(filePath) = "unknown"

\* C22: parseMapFiles never rejects and returns one result per input path,
\* result i being the result of path i whatever the order in which the
\* parses completed: it carries the base name of path i and is what
\* parseMapFile returns for that path alone; a file that is missing,
\* unreadable or of unsupported type gives success = false with an error and
\* no points
C22_OneResultPerPathInInputOrder ==
  /\ pc # "rejected"
  /\ pc = "parsed" =>
       /\ DOMAIN result = DOMAIN paths
       /\ \A i \in DOMAIN paths :
            /\ result[i].fileName = <<paths[i].name, paths[i].ext>>
            /\ result[i] = ParsedAlone(paths[i])
            /\ CannotBeParsed(paths[i]) =>
                 /\ ~result[i].success
                 /\ result[i].error # <<>>
                 /\ result[i].points = <<>>

\* C22 witness: three different files were parsed, the parses completed in
\* an order other than the order of the paths, one file was missing and
\* another gave its points
C22_Witness ==
  /\ pc = "parsed"
  /\ Cardinality(DOMAIN paths) = MaxFiles
  /\ \A i, j \in DOMAIN paths : i # j => paths[i] # paths[j]
  /\ \E k \in 1..(Len(settled) - 1) : settled[k] > settled[k + 1]
  /\ \E i \in DOMAIN paths : FileAt(paths[i]).open = "ENOENT"
  /\ \E i \in DOMAIN paths : result[i].success /\ result[i].points # <<>>

\* a check was recorded less than one hour ago
RecentCheck ==
  /\ disk.checkCache # <<>>
  /\ clock - disk.checkCache[1] < CHECK_INTERVAL_MS

\* C21: autoSync is rate-limited to once per hour: an invocation that
\* passed the rate limit has recorded the time of the check when it
\* returns, whatever its exit path, and an invocation that starts less than
\* one hour after a recorded check returns checked = false and
\* updated = false and has fetched nothing, copied nothing and written no
\* version file
C21_RateLimitedToOncePerHour ==
  /\ [](pc = "returned" => disk.checkCache = <<clock>>)
  /\ [][(pc = "idle" /\ pc' # "idle" /\ RecentCheck) =>
           /\ pc' = "rateLimited"
           /\ ~result'.checked
           /\ ~result'.updated
           /\ effects' = {}
           /\ disk' = disk]_vars
====
